---- MODULE Spec2Model ----
(***************************************************************************)
(* Snapshot retention subsystem of klaken-v2: the in-memory snapshot       *)
(* tracker (logic/snapshot_tracker.py), the SQLite snapshot store          *)
(* (logic/snapshot_persistence.py) and the collection scheduler            *)
(* (logic/snapshot_scheduler.py), with the /status request path of api.py  *)
(* that feeds the tracker.                                                 *)
(***************************************************************************)
EXTENDS Integers, Sequences, FiniteSets, TLC

(***************************************************************************)
(* Bounds of the model.                                                    *)
(***************************************************************************)
\* capacity the tracker is constructed with, SnapshotTracker(max_snapshots=N)
max_snapshots == 2
\* calls of tracker.save beyond the capacity in one behaviour
MaxExtraPushes == 1
\* collection ticks launched in one behaviour
MaxTicks == 2
\* calls of start_snapshot_scheduler in one behaviour
MaxStarts == 2
\* rows inserted by direct calls of save_snapshot in one behaviour
MaxSaves == 2
\* the largest magnitude of a numeric input of the three signal scores, in
\* the units of that score
ScoreRange == 25
\* the sub-scores given to the confluence score are multiples of 1/ScoreGrid
ScoreGrid == 2
\* the longest cluster list given to the magnet score
MaxClusters == 2

(***************************************************************************)
(* Program constants.                                                      *)
(***************************************************************************)
SYMBOLS == <<"SOL", "BTC", "ETH">>
RetentionDays == 30

None == [py |-> "None"]
Raise == [py |-> "Exception"]

(***************************************************************************)
(* Wall clock and timestamps.                                              *)
(***************************************************************************)
\* the instants at which the clock is read: day 0, the day a retention period
\* later and the day after it, the hours 0 and 1 of a day, two microseconds
\* of one second
ClockValues ==
    [day : {0, RetentionDays, RetentionDays + 1}, hour : {0, 1}, us : {0, 1}]

At(day, hour, us) == [day |-> day, hour |-> hour, us |-> us]

\* t1 is an earlier instant than t2
TimeLess(t1, t2) ==
    \/ t1.day < t2.day
    \/ t1.day = t2.day /\ t1.hour < t2.hour
    \/ t1.day = t2.day /\ t1.hour = t2.hour /\ t1.us < t2.us

\* datetime.isoformat() + "Z" as a sequence of character codes: the date and
\* the hour are fixed-width fields, "." is 46 and "Z" is 90; the fraction is
\* printed only when the microsecond is not 0
isoformat(t) ==
    IF t.us = 0
    THEN <<t.day, t.hour, 90>>
    ELSE <<t.day, t.hour, 46, t.us, 90>>

RECURSIVE StrLess(_, _)
\* s1 < s2 as SQLite compares TEXT (and Python compares str): lexicographic
StrLess(s1, s2) ==
    IF s2 = <<>> THEN FALSE
    ELSE IF s1 = <<>> THEN TRUE
    ELSE IF Head(s1) # Head(s2) THEN Head(s1) < Head(s2)
    ELSE StrLess(Tail(s1), Tail(s2))

\* datetime.utcnow() - timedelta(days=days)
MinusDays(t, days) == [t EXCEPT !.day = @ - days]

\* datetime.utcnow().hour
HourOf(t) == t.hour

(***************************************************************************)
(* Data returned by the data sources.                                      *)
(***************************************************************************)
ShortAbove == [price |-> 110, size |-> 1000, side |-> "short"]
LongBelow == [price |-> 90, size |-> 500, side |-> "long"]

ClusterLists ==
    {<<>>, <<ShortAbove>>, <<ShortAbove, LongBelow>>, <<LongBelow, ShortAbove>>}

\* what HyblockClient.get_liquidation_levels returns: the response JSON, or
\* None on 404/401/422/timeout
LiquidationLevels == {None} \cup {[data |-> l] : l \in ClusterLists}

Prices == {100, 101}

\* what BinanceClient.get_current_price returns or raises
PriceResults == {Raise} \cup {[value |-> p] : p \in Prices}

\* what get_hyblock_raw returns (its liquidation_levels key is always present,
\* the other keys are not read here), or raises when the token request fails
HyblockResults == {Raise} \cup {[liquidation_levels |-> l] : l \in LiquidationLevels}

\* symbol.upper()
upper(symbol) ==
    CASE symbol = "sol" -> "SOL"
      [] symbol = "btc" -> "BTC"
      [] symbol = "eth" -> "ETH"
      [] OTHER -> symbol

\* clusters_data.get("data", [])
get_data(d) == IF "data" \in DOMAIN d THEN d.data ELSE <<>>

\* the elements of a sequence
Range(s) == {s[i] : i \in DOMAIN s}

Last(s) == s[Len(s)]

Max(S) == CHOOSE x \in S : \A y \in S : y <= x

Min2(a, b) == IF a < b THEN a ELSE b

(***************************************************************************)
(* SnapshotTracker (logic/snapshot_tracker.py).                            *)
(***************************************************************************)
\* deque(maxlen).append without the eviction, as a plain list appends
list_append(q, x, maxlen) == Append(q, x)

\* collections.deque(maxlen=maxlen).append(x)
deque_append(q, x, maxlen) ==
    IF maxlen = 0 THEN q
    ELSE IF Len(q) = maxlen THEN Append(Tail(q), x)
    ELSE Append(q, x)

\* storing the caller's object itself: the same value, and the same object
no_copy(x) == [value |-> x, same |-> TRUE]

\* copy.deepcopy(x): an equal value held by a new object
deepcopy(x) == [value |-> x, same |-> FALSE]

\* the snapshot SnapshotTracker.save builds
new_snapshot(hyblock_data, current_price, t) ==
    [timestamp |-> isoformat(t),
     price_at_snapshot |-> current_price,
     data |-> deepcopy(hyblock_data).value]

\* SnapshotTracker.list_snapshots; s["data"].get raises on a None
list_snapshots(q) ==
    IF \E i \in DOMAIN q : q[i].data = None THEN Raise
    ELSE [items |->
            [i \in DOMAIN q |->
                [timestamp |-> q[i].timestamp,
                 price |-> q[i].price_at_snapshot,
                 clusters_count |-> Len(get_data(q[i].data))]]]

\* SnapshotTracker.get_snapshot
get_snapshot(q, timestamp) ==
    IF \E i \in DOMAIN q : q[i].timestamp = timestamp
    THEN q[CHOOSE i \in DOMAIN q :
              /\ q[i].timestamp = timestamp
              /\ \A j \in DOMAIN q : q[j].timestamp = timestamp => i <= j]
    ELSE None

\* get_latest reading the left end of the deque
get_oldest(q) == IF q # <<>> THEN q[1] ELSE None

\* SnapshotTracker.get_latest
get_latest(q) == IF q # <<>> THEN q[Len(q)] ELSE None

(***************************************************************************)
(* Snapshot store (logic/snapshot_persistence.py).                         *)
(***************************************************************************)
RECURSIVE json_dumps(_)
\* json.dumps of a cluster list: the text, one group of tokens per cluster
json_dumps(clusters) ==
    IF clusters = <<>> THEN <<>>
    ELSE <<Head(clusters).price, Head(clusters).size, Head(clusters).side>>
            \o json_dumps(Tail(clusters))

RECURSIVE json_loads_reversed(_)
\* a json.loads that builds the list back to front
json_loads_reversed(text) ==
    IF text = <<>> THEN <<>>
    ELSE json_loads_reversed(SubSeq(text, 4, Len(text)))
            \o <<[price |-> text[1], size |-> text[2], side |-> text[3]]>>

RECURSIVE json_loads(_)
\* json.loads of the text json_dumps wrote
json_loads(text) ==
    IF text = <<>> THEN <<>>
    ELSE <<[price |-> text[1], size |-> text[2], side |-> text[3]]>>
            \o json_loads(SubSeq(text, 4, Len(text)))

\* the id INTEGER PRIMARY KEY assigns without AUTOINCREMENT: one more than
\* the largest id in the table
rowid_after_max(table, seq) ==
    IF table = {} THEN 1 ELSE Max({r.id : r \in table}) + 1

\* the id INTEGER PRIMARY KEY AUTOINCREMENT assigns: one more than the largest
\* id the table has ever held
autoincrement(table, seq) ==
    Max({seq} \cup {r.id : r \in table}) + 1

\* a row whose count is len(clusters_data), the number of keys of the dict
new_row_counting_keys(table, seq, symbol, price, clusters_data, t) ==
    LET clusters == get_data(clusters_data)
    IN  [id |-> autoincrement(table, seq),
         timestamp |-> isoformat(t),
         symbol |-> upper(symbol),
         price |-> price,
         clusters_count |-> Cardinality(DOMAIN clusters_data),
         clusters_json |-> json_dumps(clusters)]

\* the row save_snapshot inserts
new_row(table, seq, symbol, price, clusters_data, t) ==
    LET clusters == get_data(clusters_data)
    IN  [id |-> autoincrement(table, seq),
         timestamp |-> isoformat(t),
         symbol |-> upper(symbol),
         price |-> price,
         clusters_count |-> Len(clusters),
         clusters_json |-> json_dumps(clusters)]

\* a row as get_snapshot_by_id and get_latest_snapshot return it
full_snapshot(r) ==
    [id |-> r.id,
     timestamp |-> r.timestamp,
     symbol |-> r.symbol,
     price |-> r.price,
     clusters_count |-> r.clusters_count,
     clusters |-> json_loads(r.clusters_json)]

\* get_snapshot_by_id
get_snapshot_by_id(table, snapshot_id) ==
    IF \E r \in table : r.id = snapshot_id
    THEN full_snapshot(CHOOSE r \in table : r.id = snapshot_id)
    ELSE None

\* the rows the DELETE of cleanup_old_snapshots removes
old_rows(table, days, t) ==
    {r \in table : StrLess(r.timestamp, isoformat(MinusDays(t, days)))}

\* an upsert keyed by symbol, as a store keeping one row per symbol inserts
insert_replace(table, row) ==
    {r \in table : r.symbol # row.symbol} \cup {row}

\* an INSERT that is never committed
insert_nothing(table, row) == table

\* INSERT INTO snapshots
insert_row(table, row) == table \cup {row}

\* a save_snapshot that swallows the storage fault and returns id 0
save_snapshot_swallowing(table, seq, symbol, price, clusters_data, t, fault) ==
    IF fault \/ clusters_data = None
    THEN [table |-> table, seq |-> seq, result |-> [value |-> 0]]
    ELSE LET row == new_row(table, seq, symbol, price, clusters_data, t)
         IN  [table |-> insert_row(table, row), seq |-> row.id,
              result |-> [value |-> row.id]]

\* a save_snapshot that stores absent liquidation levels as an empty list
save_snapshot_tolerant(table, seq, symbol, price, clusters_data, t, fault) ==
    IF fault
    THEN [table |-> table, seq |-> seq, result |-> Raise]
    ELSE LET row == new_row(table, seq, symbol, price,
                            IF clusters_data = None THEN [data |-> <<>>]
                            ELSE clusters_data, t)
         IN  [table |-> insert_row(table, row), seq |-> row.id,
              result |-> [value |-> row.id]]

\* save_snapshot: the table, the sequence and the result (the new id, or Raise
\* on a storage fault or on a clusters_data that is None: nothing is inserted)
save_snapshot(table, seq, symbol, price, clusters_data, t, fault) ==
    IF fault \/ clusters_data = None
    THEN [table |-> table, seq |-> seq, result |-> Raise]
    ELSE LET row == new_row(table, seq, symbol, price, clusters_data, t)
         IN  [table |-> insert_row(table, row),
              seq |-> row.id,
              result |-> [value |-> row.id]]

\* cleanup_old_snapshots: fault "delete" fails the DELETE or its commit, fault
\* "vacuum" fails the VACUUM that runs after the commit when rows were deleted
cleanup_old_snapshots(table, days, t, fault) ==
    LET old == old_rows(table, days, t)
    IN  IF fault = "delete"
        THEN [table |-> table, result |-> Raise]
        ELSE IF fault = "vacuum" /\ Cardinality(old) > 0
        THEN [table |-> table \ old, result |-> Raise]
        ELSE [table |-> table \ old, result |-> [value |-> Cardinality(old)]]

PruneFaults == {"none", "delete", "vacuum"}

\* datetime.utcnow() - timedelta(hours=hours)
MinusHours(t, hours) ==
    LET total == t.day * 24 + t.hour - hours
    IN  [t EXCEPT !.day = total \div 24, !.hour = total % 24]

\* a row as get_snapshots_for_symbol returns it
summary(r) ==
    [id |-> r.id,
     timestamp |-> r.timestamp,
     symbol |-> r.symbol,
     price |-> r.price,
     clusters_count |-> r.clusters_count]

\* the orders ORDER BY timestamp DESC may give the rows Q (ties in any order)
DescOrders(Q) ==
    {s \in [1..Cardinality(Q) -> Q] :
        /\ \A i, j \in DOMAIN s : i # j => s[i] # s[j]
        /\ \A i, j \in DOMAIN s : i < j => ~StrLess(s[i].timestamp, s[j].timestamp)}

\* the results get_snapshots_for_symbol may return
get_snapshots_for_symbol(table, symbol, hours, limit, t) ==
    LET cutoff == isoformat(MinusHours(t, hours))
        Q == {r \in table : r.symbol = upper(symbol) /\ StrLess(cutoff, r.timestamp)}
    IN  {[i \in 1..Min2(limit, Len(s)) |-> summary(s[i])] : s \in DescOrders(Q)}

\* the results get_latest_snapshot may return
get_latest_snapshot(table, symbol) ==
    LET Q == {r \in table : r.symbol = upper(symbol)}
    IN  IF Q = {} THEN {None}
        ELSE {full_snapshot(s[1]) : s \in DescOrders(Q)}

\* the smallest and the largest of a set of timestamps, as MIN and MAX give them
MinStr(S) == CHOOSE x \in S : \A y \in S : ~StrLess(y, x)
MaxStr(S) == CHOOSE x \in S : \A y \in S : ~StrLess(x, y)

\* get_stats (without the size of the database file)
get_stats(table) ==
    [symbols |->
        [sym \in Range(SYMBOLS) |->
            LET Q == {r \in table : r.symbol = sym}
            IN  IF Q = {}
                THEN [count |-> 0, first |-> None, last |-> None]
                ELSE [count |-> Cardinality(Q),
                      first |-> [value |-> MinStr({r.timestamp : r \in Q})],
                      last |-> [value |-> MaxStr({r.timestamp : r \in Q})]]],
     total_snapshots |-> Cardinality(table)]

\* api.get_base_symbol
get_base_symbol(symbol) ==
    CASE symbol = "solusdt" -> "SOL"
      [] symbol = "BTCUSDT" -> "BTC"
      [] symbol = "eth" -> "ETH"
      [] symbol = "doge" -> "DOGE"
      [] OTHER -> symbol

\* the symbols requests name
RequestSymbols == {"solusdt", "BTC", "doge"}

(***************************************************************************)
(* Institutional scoring (logic/features.py).  Numbers are counted in units *)
(* that make the thresholds integers: the whale delta in units of 1, the   *)
(* funding rate in units of 0.00001, the long/short ratio in units of 0.1, *)
(* the confluence weights in units of 0.5.                                 *)
(***************************************************************************)
WhaleThreshold == 5
FundingThreshold == 10
LsThreshold == 20
WeightMagnet == 2
WeightWhale == 3
WeightFunding == 2
WeightLs == 2

\* the values a caller may pass for a signal: None, a float (a number or nan),
\* an int too large for a float, a str that is no number, a list
Number(v) == [py |-> "float", nan |-> FALSE, value |-> v]
NaN == [py |-> "float", nan |-> TRUE, value |-> 0]
HugeInt == [py |-> "int", digits |-> 400]
Text == [py |-> "str", text |-> "abc"]
PyList == [py |-> "list"]
ScoreInputs ==
    {None, NaN, HugeInt, Text, PyList} \cup {Number(v) : v \in -ScoreRange..ScoreRange}

\* float(x): the float itself, or the exception the conversion raises
float(x) ==
    CASE x.py = "float" -> x
      [] x.py = "int" -> [raises |-> "OverflowError"]
      [] x.py = "str" -> [raises |-> "ValueError"]
      [] OTHER -> [raises |-> "TypeError"]

\* comparisons of a float with a number; every comparison with nan is false
Gt(a, b) == ~a.nan /\ a.value > b
Lt(a, b) == ~a.nan /\ a.value < b
Le(a, b) == ~a.nan /\ a.value <= b

\* try: float(x) except (ValueError, TypeError): the float, "neutral" for a
\* caught exception, Raise for any other
try_float(x) ==
    LET converted == float(x)
    IN  IF "raises" \notin DOMAIN converted THEN converted
        ELSE IF converted.raises \in {"ValueError", "TypeError"} THEN [caught |-> TRUE]
        ELSE Raise

calculate_whale_score(whale_delta) ==
    IF whale_delta = None THEN [value |-> 0]
    ELSE LET delta == try_float(whale_delta)
         IN  IF delta = Raise THEN Raise
             ELSE IF "caught" \in DOMAIN delta THEN [value |-> 0]
             ELSE IF Gt(delta, WhaleThreshold) THEN [value |-> 1]
             ELSE IF Lt(delta, -WhaleThreshold) THEN [value |-> -1]
             ELSE [value |-> 0]

calculate_funding_score(funding_rate) ==
    IF funding_rate = None THEN [value |-> 0]
    ELSE LET rate == try_float(funding_rate)
         IN  IF rate = Raise THEN Raise
             ELSE IF "caught" \in DOMAIN rate THEN [value |-> 0]
             ELSE IF Gt(rate, FundingThreshold) THEN [value |-> -1]
             ELSE IF Lt(rate, -FundingThreshold) THEN [value |-> 1]
             ELSE [value |-> 0]

calculate_ls_score(ls_ratio) ==
    IF ls_ratio = None THEN [value |-> 0]
    ELSE LET ratio == try_float(ls_ratio)
         IN  IF ratio = Raise THEN Raise
             ELSE IF "caught" \in DOMAIN ratio THEN [value |-> 0]
             ELSE IF Le(ratio, 0) THEN [value |-> 0]
             ELSE IF Gt(ratio, LsThreshold) THEN [value |-> -1]
             ELSE [value |-> 1]

(***************************************************************************)
(* Liquidation magnet score (logic/features.py).  Sizes and weighted sums   *)
(* are counted in units of reference_volume; a float beyond the modelled    *)
(* sizes is 1e308, counted in halves (0.5e308), and four halves overflow    *)
(* to inf.                                                                  *)
(***************************************************************************)
reference_volume == 500
RangePercent == 15

\* the float 1e308
HugeFloat == [py |-> "float", nan |-> FALSE, huge |-> TRUE, value |-> 1]
Side(text) == [py |-> "str", text |-> text]
Cluster(price, size, side) == [price |-> price, size |-> size, side |-> side]

\* a float sum of weighted sizes
Float(nan, huge, units) == [nan |-> nan, huge |-> huge, units |-> units]
Zero == Float(FALSE, 0, 0)
IsInf(x) == ~x.nan /\ x.huge >= 4
float_add(a, b) ==
    IF a.nan \/ b.nan THEN Float(TRUE, 0, 0)
    ELSE IF a.huge + b.huge > 0 THEN Float(FALSE, Min2(4, a.huge + b.huge), 0)
    ELSE Float(FALSE, 0, a.units + b.units)

Abs(n) == IF n < 0 THEN -n ELSE n

\* 2 * distance_weight = 2 / (1 + 10 * |price - current_price| / current_price)
distance_weight(price, current_price) ==
    (2 * current_price) \div (current_price + 10 * Abs(price - current_price))

\* size * distance_weight
weighted_size(size, price, current_price) ==
    IF size.nan THEN Float(TRUE, 0, 0)
    ELSE IF "huge" \in DOMAIN size
         THEN Float(FALSE, distance_weight(price, current_price), 0)
    ELSE Float(FALSE, 0, (size.value * distance_weight(price, current_price))
                          \div (2 * reference_volume))

\* the sum a cluster is added to when only strictly above or below counts
direction_strict(price, current_price, side) ==
    IF price > current_price /\ side = Side("short") THEN "bullish"
    ELSE IF price < current_price /\ side = Side("long") THEN "bearish"
    ELSE "none"

\* the sum a cluster in range is added to (the if / elif chain of lines 85-96)
direction(price, current_price, side) ==
    IF price > current_price /\ side = Side("short") THEN "bullish"
    ELSE IF price < current_price /\ side = Side("long") THEN "bearish"
    ELSE IF price >= current_price /\ side = Side("short") THEN "bullish"
    ELSE IF price <= current_price /\ side = Side("long") THEN "bearish"
    ELSE "none"

\* one pass of the loop body for a cluster: the sum it is added to (or "none"
\* when it is skipped, "raise" when the body raises) and the amount added
contribution(cluster, current_price) ==
    LET skipped == [to |-> "none", amount |-> Zero]
        price == try_float(cluster.price)
        size == try_float(cluster.size)
    IN  IF cluster.price = None \/ cluster.size = None \/ cluster.side = None
        THEN skipped
        ELSE IF price = Raise THEN [to |-> "raise", amount |-> Zero]
        ELSE IF "caught" \in DOMAIN price THEN skipped
        ELSE IF size = Raise THEN [to |-> "raise", amount |-> Zero]
        ELSE IF "caught" \in DOMAIN size THEN skipped
        ELSE IF Le(size, 0) THEN skipped
        ELSE IF current_price.nan THEN skipped
        ELSE IF \/ 100 * price.value < (100 - RangePercent) * current_price.value
                \/ 100 * price.value > (100 + RangePercent) * current_price.value
        THEN skipped
        ELSE [to |-> direction(price.value, current_price.value, cluster.side),
              amount |-> weighted_size(size, price.value, current_price.value)]

\* the two sums after the loop over the first n clusters, or Raise
RECURSIVE weighted_sums(_, _, _)
weighted_sums(clusters, current_price, n) ==
    IF n = 0 THEN [bullish |-> Zero, bearish |-> Zero]
    ELSE LET before == weighted_sums(clusters, current_price, n - 1)
             added == contribution(clusters[n], current_price)
         IN  IF before = Raise \/ added.to = "raise" THEN Raise
             ELSE [bullish |-> IF added.to = "bullish"
                               THEN float_add(before.bullish, added.amount)
                               ELSE before.bullish,
                   bearish |-> IF added.to = "bearish"
                               THEN float_add(before.bearish, added.amount)
                               ELSE before.bearish]

\* round(tanh(2 * (a / k) * min(1, log1p(k) / log1p(5))), 4) in units of 0.0001
\* for a total of k units and a difference of a units, 0 <= a <= k:
\* ScoreTable[k][a + 1]
ScoreTable ==
    << <<0, 6491>>,
       <<0, 5463, 8415>>,
       <<0, 4745, 7746, 9134>>,
       <<0, 4212, 7154, 8734, 9464>>,
       <<0, 3799, 6640, 8337, 9217, 9640>>,
       <<0, 3215, 5828, 7616, 8701, 9311, 9640>>,
       <<0, 2782, 5164, 6948, 8154, 8914, 9372, 9640>>,
       <<0, 2449, 4621, 6351, 7616, 8483, 9051, 9414, 9640>> >>

normalized_score(a, k) ==
    IF a < 0 THEN -ScoreTable[k][1 - a] ELSE ScoreTable[k][a + 1]

\* the score computed from the two sums (lines 98-122)
net_score(bullish_weighted_sum, bearish_weighted_sum) ==
    LET total == float_add(bullish_weighted_sum, bearish_weighted_sum)
    IN  IF total = Zero THEN Number(0)
        ELSE IF total.nan THEN NaN
        ELSE IF IsInf(total)
        THEN IF IsInf(bullish_weighted_sum) \/ IsInf(bearish_weighted_sum)
             THEN NaN
             ELSE Number(0)
        ELSE IF total.huge > 0
        THEN Number(normalized_score(
                 (6 * (bullish_weighted_sum.huge - bearish_weighted_sum.huge))
                     \div total.huge, 6))
        ELSE Number(normalized_score(
                 bullish_weighted_sum.units - bearish_weighted_sum.units, total.units))

calculate_liquidation_magnet_score(current_price, clusters) ==
    IF current_price = None \/ Le(current_price, 0) THEN Number(0)
    ELSE IF clusters = <<>> THEN Number(0)
    ELSE LET sums == weighted_sums(clusters, current_price, Len(clusters))
         IN  IF sums = Raise THEN Raise
             ELSE net_score(sums.bullish, sums.bearish)

\* the clusters given to the score: well-formed ones at four prices, and one
\* of each kind of malformed record
ValidClusters ==
    {Cluster(Number(price), size, Side(side)) :
        price \in {90, 100, 110, 120}, size \in {Number(1000), HugeFloat},
        side \in {"short", "long"}}
MalformedClusters ==
    {Cluster(None, Number(1000), Side("short")),
     Cluster(Number(100), None, Side("short")),
     Cluster(Number(100), Number(1000), None),
     Cluster(Text, Number(1000), Side("short")),
     Cluster(Number(100), Text, Side("short")),
     Cluster(Number(100), Number(0), Side("short")),
     Cluster(Number(100), Number(1000), Side("SHORT")),
     Cluster(Number(100), NaN, Side("short")),
     Cluster(Number(100), HugeInt, Side("short"))}
ClusterRecords == ValidClusters \cup MalformedClusters

RECURSIVE ListsUpTo(_, _)
ListsUpTo(S, n) ==
    IF n = 0 THEN {<<>>}
    ELSE LET shorter == ListsUpTo(S, n - 1)
         IN  shorter \cup {Append(l, x) : l \in shorter, x \in S}

CurrentPrices == {None, NaN, Number(0), Number(100)}

VARIABLES
    now,            \* the wall clock read by datetime.utcnow()
    snapshots,      \* SnapshotTracker.snapshots, oldest first
    pushed,         \* the arguments and the time of every tracker.save call, in order
    reading,        \* the iteration over the deque a worker thread is in, or None
    objects,        \* the objects callers of tracker.save passed and still hold, in
                    \* push order: the value now, and whether the entry holds the same object
    rows,           \* the rows of table snapshots
    sqlite_sequence,\* AUTOINCREMENT's record of the largest id ever assigned
    appends,        \* the arguments and the returned id of every save_snapshot, in order
    last_call,      \* the last request served or store call made, and its result
    scheduler,      \* the module global scheduler: None or a reference
    schedulers,     \* the AsyncIOScheduler objects that are running, by reference
    starts,         \* how many AsyncIOScheduler objects were constructed
    tasks           \* the collect_snapshots tasks created, by number

vars == <<now, snapshots, pushed, reading, objects, rows, sqlite_sequence, appends, last_call,
          scheduler, schedulers, starts, tasks>>

cache_vars == <<snapshots, pushed, reading, objects>>
store_vars == <<rows, sqlite_sequence, appends>>
sched_vars == <<scheduler, schedulers, starts, tasks>>

Init ==
    /\ now = At(0, 0, 0)
    /\ snapshots = <<>>
    /\ pushed = <<>>
    /\ reading = None
    /\ objects = <<>>
    /\ rows = {}
    /\ sqlite_sequence = 0
    /\ appends = <<>>
    /\ last_call = [op |-> "none"]
    /\ scheduler = None
    /\ schedulers = <<>>
    /\ starts = 0
    /\ tasks = <<>>

\* time passes
Advance(t) ==
    /\ t \in ClockValues
    /\ TimeLess(now, t)
    /\ now' = t
    /\ UNCHANGED <<cache_vars, store_vars, last_call, sched_vars>>

\* a /status handler whose side-save also sweeps the table of old rows
GetStatusPruning(symbol, candles, hyblock, price, MaxPushes) ==
    /\ Len(pushed) < MaxPushes
    /\ get_base_symbol(symbol) \in {"SOL", "BTC", "ETH"}
    /\ candles # Raise /\ hyblock # Raise /\ price # Raise
    /\ snapshots' = deque_append(snapshots,
                        new_snapshot(hyblock.liquidation_levels, price.value, now),
                        max_snapshots)
    /\ pushed' = Append(pushed, [data |-> hyblock.liquidation_levels,
                                 price |-> price.value, at |-> now])
    /\ rows' = rows \ old_rows(rows, RetentionDays, now)
    /\ UNCHANGED <<reading, objects>>
    /\ last_call' = [op |-> "get_status", status |-> 200,
                     symbol |-> get_base_symbol(symbol), hyblock |-> hyblock]
    /\ UNCHANGED <<now, sqlite_sequence, appends, sched_vars>>

(***************************************************************************)
(* Requests served by api.py.                                              *)
(***************************************************************************)
\* a /status handler without the inner try: a side-save that raises reaches
\* the outer except and the request is answered 500
get_status_unguarded(symbol, candles, hyblock, price) ==
    IF get_base_symbol(symbol) \notin {"SOL", "BTC", "ETH"}
    THEN [status |-> 400]
    ELSE IF candles = Raise \/ hyblock = Raise \/ price = Raise
    THEN [status |-> 500]
    ELSE [status |-> 200, symbol |-> get_base_symbol(symbol), hyblock |-> hyblock]

\* what GET /status answers: 400 for a symbol that is not tracked, 500 when a
\* primary fetch raises, else the data fetched; what the side-save's price
\* fetch does has no part in it
get_status(symbol, candles, hyblock, price) ==
    IF get_base_symbol(symbol) \notin {"SOL", "BTC", "ETH"}
    THEN [status |-> 400]
    ELSE IF candles = Raise \/ hyblock = Raise
    THEN [status |-> 500]
    ELSE [status |-> 200, symbol |-> get_base_symbol(symbol), hyblock |-> hyblock]

\* GET /status: the candles and the hyblock data are fetched, a snapshot is
\* pushed into the tracker inside the inner try, and the data is returned
GetStatus(symbol, candles, hyblock, price, MaxPushes) ==
    LET answer == get_status(symbol, candles, hyblock, price)
    IN
    /\ Len(pushed) < MaxPushes
    /\ IF /\ get_base_symbol(symbol) \in {"SOL", "BTC", "ETH"}
          /\ candles # Raise /\ hyblock # Raise
          /\ "liquidation_levels" \in DOMAIN hyblock /\ price # Raise
       THEN /\ snapshots' =
                deque_append(snapshots,
                    new_snapshot(hyblock.liquidation_levels, price.value, now),
                    max_snapshots)
            /\ pushed' = Append(pushed,
                    [data |-> hyblock.liquidation_levels, price |-> price.value,
                     at |-> now])
            /\ UNCHANGED <<reading, objects>>
       ELSE UNCHANGED cache_vars
    /\ last_call' = [op |-> "get_status"] @@ answer
    /\ UNCHANGED <<now, store_vars, sched_vars>>

\* GET /snapshots
ListSnapshots ==
    /\ last_call' =
        LET listed == list_snapshots(snapshots)
        IN  IF listed = Raise
            THEN [op |-> "list_snapshots", status |-> 500]
            ELSE [op |-> "list_snapshots", status |-> 200,
                  count |-> Len(snapshots), snapshots |-> listed.items]
    /\ UNCHANGED <<now, cache_vars, store_vars, sched_vars>>

\* GET /snapshots/latest
GetLatestSnapshot ==
    /\ last_call' =
        LET snapshot == get_latest(snapshots)
        IN  IF snapshot = None
            THEN [op |-> "get_latest_snapshot", status |-> 404]
            ELSE [op |-> "get_latest_snapshot", status |-> 200, snapshot |-> snapshot]
    /\ UNCHANGED <<now, cache_vars, store_vars, sched_vars>>

\* GET /snapshots/{timestamp}
GetSnapshot(timestamp) ==
    /\ last_call' =
        LET snapshot == get_snapshot(snapshots, timestamp)
        IN  IF snapshot = None
            THEN [op |-> "get_snapshot", status |-> 404]
            ELSE [op |-> "get_snapshot", status |-> 200, snapshot |-> snapshot]
    /\ UNCHANGED <<now, cache_vars, store_vars, sched_vars>>

\* the place in the deque of the entry of push number k, 0 once it was dropped
entry_of(k) == IF k > Len(pushed) - Len(snapshots)
               THEN k - (Len(pushed) - Len(snapshots)) ELSE 0

\* a caller calls tracker.save(hyblock_data, current_price) and keeps its object
TrackerSave(hyblock_data, current_price, MaxPushes) ==
    /\ Len(pushed) < MaxPushes
    /\ snapshots' = deque_append(snapshots,
                        new_snapshot(hyblock_data, current_price, now), max_snapshots)
    /\ pushed' = Append(pushed, [data |-> hyblock_data, price |-> current_price,
                                 at |-> now])
    /\ objects' = Append(objects, [value |-> hyblock_data,
                                   same |-> deepcopy(hyblock_data).same])
    /\ last_call' = [op |-> "save", result |-> Len(snapshots')]
    /\ UNCHANGED <<now, reading, store_vars, sched_vars>>

\* the caller of push number k empties the cluster list of the dict it pushed;
\* an entry that holds the same object changes with it
CallerClears(k) ==
    /\ k \in DOMAIN objects
    /\ objects[k].value # None
    /\ objects[k].value.data # <<>>
    /\ objects' = [objects EXCEPT ![k].value = [data |-> <<>>]]
    /\ snapshots' = IF objects[k].same /\ entry_of(k) > 0
                    THEN [snapshots EXCEPT ![entry_of(k)].data = [data |-> <<>>]]
                    ELSE snapshots
    /\ UNCHANGED <<now, pushed, reading, store_vars, last_call, sched_vars>>

\* one entry as list_snapshots prints it
listed_entry(s) ==
    [timestamp |-> s.timestamp,
     price |-> s.price_at_snapshot,
     clusters_count |-> Len(get_data(s.data))]

\* GET /snapshots or GET /snapshots/{timestamp} starts on a worker thread (the
\* handlers are plain functions); list_snapshots first reads len(tracker.snapshots)
BeginRead(op, timestamp) ==
    /\ reading = None
    /\ reading' = [op |-> op, timestamp |-> timestamp, pc |-> "iter",
                   count |-> Len(snapshots), before |-> snapshots]
    /\ UNCHANGED <<now, snapshots, pushed, objects, store_vars, last_call, sched_vars>>

\* the worker thread runs up to its next read of the deque: it creates the
\* deque's iterator, which remembers the deque's mutation count, or it calls
\* next() on it, which raises when the deque was appended to since, ends the
\* loop at the end of the deque, or gives the next entry
NextRead ==
    /\ reading # None
    /\ IF reading.pc = "iter"
       THEN /\ reading' = [reading EXCEPT !.pc = "next"] @@
                            [state |-> Len(pushed), i |-> 0, items |-> <<>>]
            /\ UNCHANGED last_call
       ELSE IF reading.state # Len(pushed)
       THEN /\ reading' = None
            /\ last_call' = [op |-> reading.op, status |-> 500]
       ELSE IF reading.i = Len(snapshots)
       THEN /\ reading' = None
            /\ last_call' =
                IF reading.op = "list_snapshots"
                THEN [op |-> reading.op, status |-> 200,
                      count |-> reading.count, snapshots |-> reading.items]
                ELSE [op |-> reading.op, status |-> 404]
       ELSE LET s == snapshots[reading.i + 1]
            IN  IF reading.op = "list_snapshots"
                THEN IF s.data = None
                     THEN /\ reading' = None
                          /\ last_call' = [op |-> reading.op, status |-> 500]
                     ELSE /\ reading' = [reading EXCEPT
                                            !.i = @ + 1,
                                            !.items = Append(@, listed_entry(s))]
                          /\ UNCHANGED last_call
                ELSE IF s.timestamp = reading.timestamp
                     THEN /\ reading' = None
                          /\ last_call' = [op |-> reading.op, status |-> 200,
                                           snapshot |-> s]
                     ELSE /\ reading' = [reading EXCEPT !.i = @ + 1]
                          /\ UNCHANGED last_call
    /\ UNCHANGED <<now, snapshots, pushed, objects, store_vars, sched_vars>>

\* GET /history/stats
HistoryStats ==
    /\ last_call' = [op |-> "history_stats", status |-> 200,
                     database |-> get_stats(rows),
                     scheduler_running |->
                        IF scheduler # None THEN scheduler.ref \in DOMAIN schedulers
                        ELSE FALSE]
    /\ UNCHANGED <<now, cache_vars, store_vars, sched_vars>>

\* GET /history/{symbol}?hours=&limit=
GetSymbolHistory(symbol, hours, limit) ==
    LET base_symbol == get_base_symbol(symbol)
    IN
    /\ IF base_symbol \notin {"SOL", "BTC", "ETH"}
       THEN last_call' = [op |-> "get_symbol_history", status |-> 400]
       ELSE \E found \in get_snapshots_for_symbol(rows, base_symbol, hours, limit, now) :
                last_call' = [op |-> "get_symbol_history", status |-> 200,
                              symbol |-> base_symbol, hours |-> hours,
                              limit |-> limit,
                              count |-> Len(found), snapshots |-> found]
    /\ UNCHANGED <<now, cache_vars, store_vars, sched_vars>>

\* GET /history/{symbol}/latest
GetSymbolLatest(symbol) ==
    LET base_symbol == get_base_symbol(symbol)
    IN
    /\ IF base_symbol \notin {"SOL", "BTC", "ETH"}
       THEN last_call' = [op |-> "get_symbol_latest", status |-> 400]
       ELSE \E snapshot \in get_latest_snapshot(rows, base_symbol) :
                last_call' =
                    IF snapshot = None
                    THEN [op |-> "get_symbol_latest", status |-> 404,
                          symbol |-> base_symbol]
                    ELSE [op |-> "get_symbol_latest", status |-> 200,
                          symbol |-> base_symbol, snapshot |-> snapshot]
    /\ UNCHANGED <<now, cache_vars, store_vars, sched_vars>>

\* GET /history/snapshot/{snapshot_id}
GetSnapshotDetail(snapshot_id) ==
    /\ last_call' =
        LET snapshot == get_snapshot_by_id(rows, snapshot_id)
        IN  IF snapshot = None
            THEN [op |-> "get_snapshot_detail", status |-> 404]
            ELSE [op |-> "get_snapshot_detail", status |-> 200, snapshot |-> snapshot]
    /\ UNCHANGED <<now, cache_vars, store_vars, sched_vars>>

(***************************************************************************)
(* Direct calls of the store's writing functions.                          *)
(***************************************************************************)
\* a caller calls save_snapshot(symbol, price, clusters_data)
SaveSnapshot(symbol, price, clusters_data, fault, MaxRows) ==
    LET saved == save_snapshot(rows, sqlite_sequence, symbol, price, clusters_data,
                               now, fault)
    IN
    /\ Len(appends) < MaxRows
    /\ rows' = saved.table
    /\ sqlite_sequence' = saved.seq
    /\ appends' =
        IF saved.result = Raise THEN appends
        ELSE Append(appends, [id |-> saved.result.value, symbol |-> symbol,
                              price |-> price, clusters |-> get_data(clusters_data)])
    /\ last_call' = [op |-> "save_snapshot", result |-> saved.result]
    /\ UNCHANGED <<now, cache_vars, sched_vars>>

\* a caller calls cleanup_old_snapshots(days)
CleanupOldSnapshots(days, fault) ==
    LET cleaned == cleanup_old_snapshots(rows, days, now, fault)
    IN
    /\ rows' = cleaned.table
    /\ last_call' = [op |-> "cleanup_old_snapshots", days |-> days,
                     result |-> cleaned.result]
    /\ UNCHANGED <<now, cache_vars, sqlite_sequence, appends, sched_vars>>

\* the sub-scores given to the confluence score, in units of 1/ScoreGrid:
\* the multiples of 1/ScoreGrid in [-1, 1]
SubScores == -ScoreGrid..ScoreGrid

\* round(n / d, 0) for d > 0, ties to the even neighbour
round(n, d) ==
    LET q == n \div d
        r == n % d
    IN  IF 2 * r < d THEN q
        ELSE IF 2 * r > d THEN q + 1
        ELSE IF q % 2 = 0 THEN q ELSE q + 1

\* the combined score normalised by the number of signals, not by their weights
confluence_by_count(magnet_score, whale_score, funding_score, ls_score) ==
    LET weighted_sum == magnet_score * WeightMagnet + whale_score * WeightWhale
                        + funding_score * WeightFunding + ls_score * WeightLs
    IN  [score |-> round(weighted_sum * 10000, 2 * Len(<<magnet_score, whale_score, funding_score, ls_score>>) * ScoreGrid),
         bullish_signals |-> 0, bearish_signals |-> 0, confluence |-> "MIXED_SIGNALS"]

\* s > 0.3 and s < -0.3 for a sub-score s counted in units of 1/unit
at_least_bullish(s, unit) == 10 * s >= 3 * unit
is_bullish(s, unit) == 10 * s > 3 * unit
is_bearish(s, unit) == 10 * s < -3 * unit

\* calculate_confluence_score with the default weights, for sub-scores counted
\* in units of 1/unit; the score is in units of 0.0001
confluence(unit, magnet_score, whale_score, funding_score, ls_score) ==
    LET weighted_sum == magnet_score * WeightMagnet + whale_score * WeightWhale
                        + funding_score * WeightFunding + ls_score * WeightLs
        total_weight == WeightMagnet + WeightWhale + WeightFunding + WeightLs
        signals == <<magnet_score, whale_score, funding_score, ls_score>>
        bullish_count == Cardinality({i \in 1..4 : is_bullish(signals[i], unit)})
        bearish_count == Cardinality({i \in 1..4 : is_bearish(signals[i], unit)})
    IN  [score |-> round(weighted_sum * 10000, total_weight * unit),
         bullish_signals |-> bullish_count,
         bearish_signals |-> bearish_count,
         confluence |->
             IF bullish_count >= 3 THEN "HIGH_BULLISH_CONFLUENCE"
             ELSE IF bearish_count >= 3 THEN "HIGH_BEARISH_CONFLUENCE"
             ELSE IF bullish_count >= 2 /\ bearish_count = 0 THEN "MODERATE_BULLISH"
             ELSE IF bearish_count >= 2 /\ bullish_count = 0 THEN "MODERATE_BEARISH"
             ELSE "MIXED_SIGNALS"]

\* a bias that has no LEAN band: NEUTRAL up to 0.2 on either side
bias_without_lean(unit, magnet_score, whale_score, funding_score, ls_score) ==
    LET weighted_sum == magnet_score * WeightMagnet + whale_score * WeightWhale
                        + funding_score * WeightFunding + ls_score * WeightLs
        total == (WeightMagnet + WeightWhale + WeightFunding + WeightLs) * unit
    IN  IF 2 * weighted_sum > total THEN "STRONG_BULLISH"
        ELSE IF 5 * weighted_sum > total THEN "BULLISH"
        ELSE IF 2 * weighted_sum < -total THEN "STRONG_BEARISH"
        ELSE IF 5 * weighted_sum < -total THEN "BEARISH"
        ELSE "NEUTRAL"

\* the bias label of calculate_confluence_score (lines 303-317) for sub-scores
\* counted in units of 1/unit: normalized_score = weighted_sum / total against
\* the thresholds 0.5, 0.2 and 0.05, compared as 1/2, 1/5 and 1/20.  The float
\* comparison and this one agree when unit is a power of two (the sums are
\* exact and no quotient other than 0.5 meets a threshold)
bias(unit, magnet_score, whale_score, funding_score, ls_score) ==
    LET weighted_sum == magnet_score * WeightMagnet + whale_score * WeightWhale
                        + funding_score * WeightFunding + ls_score * WeightLs
        total == (WeightMagnet + WeightWhale + WeightFunding + WeightLs) * unit
    IN  IF 2 * weighted_sum > total THEN "STRONG_BULLISH"
        ELSE IF 5 * weighted_sum > total THEN "BULLISH"
        ELSE IF 20 * weighted_sum > total THEN "LEAN_BULLISH"
        ELSE IF 2 * weighted_sum < -total THEN "STRONG_BEARISH"
        ELSE IF 5 * weighted_sum < -total THEN "BEARISH"
        ELSE IF 20 * weighted_sum < -total THEN "LEAN_BEARISH"
        ELSE "NEUTRAL"

\* the outputs of the scoring engine: a magnet score in eighths from -1 to 1
\* and the three signal scores
MagnetEighths == -8..8
SignalScores == {-1, 0, 1}

\* calculate_confluence_score for sub-scores on the grid of SubScores
calculate_confluence_score(magnet_score, whale_score, funding_score, ls_score) ==
    confluence(ScoreGrid, magnet_score, whale_score, funding_score, ls_score)

\* sub-scores in tenths on both sides of the two label thresholds: -0.4, -0.3,
\* 0, 0.3, 0.4
LabelScores == {-4, -3, 0, 3, 4}

(***************************************************************************)
(* Calls of the scoring functions.                                         *)
(***************************************************************************)
WhaleScore(x) ==
    /\ last_call' = [op |-> "calculate_whale_score", input |-> x,
                     result |-> calculate_whale_score(x)]
    /\ UNCHANGED <<now, cache_vars, store_vars, sched_vars>>

FundingScore(x) ==
    /\ last_call' = [op |-> "calculate_funding_score", input |-> x,
                     result |-> calculate_funding_score(x)]
    /\ UNCHANGED <<now, cache_vars, store_vars, sched_vars>>

LsScore(x) ==
    /\ last_call' = [op |-> "calculate_ls_score", input |-> x,
                     result |-> calculate_ls_score(x)]
    /\ UNCHANGED <<now, cache_vars, store_vars, sched_vars>>

ConfluenceScore(magnet_score, whale_score, funding_score, ls_score) ==
    /\ last_call' = [op |-> "calculate_confluence_score",
                     input |-> <<magnet_score, whale_score, funding_score, ls_score>>,
                     result |-> calculate_confluence_score(magnet_score, whale_score,
                                                           funding_score, ls_score)]
    /\ UNCHANGED <<now, cache_vars, store_vars, sched_vars>>

\* calculate_confluence_score called with sub-scores in tenths
ConfluenceLabel(magnet_score, whale_score, funding_score, ls_score) ==
    /\ last_call' = [op |-> "calculate_confluence_score", unit |-> 10,
                     input |-> <<magnet_score, whale_score, funding_score, ls_score>>,
                     result |-> confluence(10, magnet_score, whale_score,
                                           funding_score, ls_score)]
    /\ UNCHANGED <<now, cache_vars, store_vars, sched_vars>>

\* the pending call of calculate_liquidation_magnet_score returns
MagnetScore ==
    /\ last_call.op = "call"
    /\ LET looped == /\ last_call.current_price # None
                     /\ ~Le(last_call.current_price, 0)
                     /\ last_call.clusters # <<>>
       IN  last_call' = [op |-> "calculate_liquidation_magnet_score",
                         current_price |-> last_call.current_price,
                         clusters |-> last_call.clusters,
                         looped |-> looped,
                         sums |-> IF looped
                                  THEN weighted_sums(last_call.clusters,
                                                     last_call.current_price,
                                                     Len(last_call.clusters))
                                  ELSE None,
                         result |-> calculate_liquidation_magnet_score(
                                        last_call.current_price, last_call.clusters)]
    /\ UNCHANGED <<now, cache_vars, store_vars, sched_vars>>

\* calculate_confluence_score called with the scoring engine's outputs
ConfluenceOfEngine(magnet_score, whale_score, funding_score, ls_score) ==
    /\ last_call' = [op |-> "calculate_confluence_score", engine |-> TRUE,
                     input |-> <<magnet_score, whale_score, funding_score, ls_score>>,
                     result |-> confluence(8, magnet_score, 8 * whale_score,
                                           8 * funding_score, 8 * ls_score),
                     bias |-> bias(8, magnet_score, 8 * whale_score,
                                   8 * funding_score, 8 * ls_score)]
    /\ UNCHANGED <<now, cache_vars, store_vars, sched_vars>>

(***************************************************************************)
(* Collection scheduler (logic/snapshot_scheduler.py).                     *)
(***************************************************************************)
\* a collect_snapshots coroutine at its first await, the price fetch of the
\* first symbol; fetched is what the data sources and the store did to it
new_task(origin) ==
    [origin |-> origin, pc |-> "price", i |-> 1, price |-> 0,
     saved |-> 0, errors |-> 0, fetched |-> <<>>, prune |-> "not called"]

InProgress(task) == task.pc \in {"price", "hyblock"}

\* what the environment did to one symbol of a tick
Outcome(price, hyblock, save_fault) ==
    IF price = Raise THEN "price raised"
    ELSE IF hyblock = Raise THEN "signal raised"
    ELSE IF save_fault THEN "storage fault"
    ELSE IF hyblock.liquidation_levels = None THEN "signal absent"
    ELSE "fetched"

\* an except clause around the whole for loop: the error is counted and the
\* remaining symbols are skipped
abort_loop(task) == [task EXCEPT !.errors = @ + 1, !.i = Len(SYMBOLS)]

\* an except clause that logs the error without counting it
log_error(task) == task

\* the except clause inside the for loop: the error is logged and counted,
\* and the loop goes on with the next symbol
count_error(task) == [task EXCEPT !.errors = @ + 1]

\* collect_snapshots after its for loop: at hour 0 cleanup_old_snapshots(days=30)
\* is called outside any try, so what it raises leaves the coroutine
after_loop(task, table, t, fault) ==
    IF HourOf(t) = 0
    THEN LET cleaned == cleanup_old_snapshots(table, RetentionDays, t, fault)
         IN  [task |-> [task EXCEPT
                            !.pc = IF cleaned.result = Raise THEN "raised" ELSE "done",
                            !.prune = IF cleaned.result = Raise THEN "failed" ELSE "ok"],
              table |-> cleaned.table,
              called |-> TRUE,
              result |-> cleaned.result]
    ELSE [task |-> [task EXCEPT !.pc = "done"], table |-> table,
          called |-> FALSE, result |-> None]

\* the for loop moves to the next symbol's price fetch, or ends
next_symbol(task, table, t, fault) ==
    IF task.i < Len(SYMBOLS)
    THEN [task |-> [task EXCEPT !.i = @ + 1, !.pc = "price"], table |-> table,
          called |-> FALSE, result |-> None]
    ELSE after_loop(task, table, t, fault)

\* one symbol of the for loop from the return of get_hyblock_raw on
save_symbol(task, table, seq, hyblock, t, save_fault) ==
    IF hyblock = Raise
    THEN [task |-> count_error(task),
          table |-> table, seq |-> seq, result |-> None]
    ELSE IF "liquidation_levels" \in DOMAIN hyblock
    THEN LET saved == save_snapshot(table, seq, SYMBOLS[task.i], task.price,
                                    hyblock.liquidation_levels, t, save_fault)
         IN  IF saved.result = Raise
             THEN [task |-> count_error(task),
                   table |-> table, seq |-> seq, result |-> Raise]
             ELSE [task |-> [task EXCEPT !.saved = @ + 1],
                   table |-> saved.table, seq |-> saved.seq, result |-> saved.result]
    ELSE [task |-> [task EXCEPT !.errors = @ + 1],
          table |-> table, seq |-> seq, result |-> None]

\* a price fetch whose failure is ignored: the coroutine goes on to
\* get_hyblock_raw for the same symbol with a price of 0
price_ignored(task, table, t, prune_fault) ==
    [task |-> [task EXCEPT !.price = 0, !.pc = "hyblock"], table |-> table,
     called |-> FALSE, result |-> None]

\* one resumption of collect_snapshots with the price fetch of its symbol
\* raising: the error is counted and the loop goes on
price_raised(task, table, t, prune_fault) ==
    next_symbol(
        count_error([task EXCEPT !.fetched = Append(@, Outcome(Raise, None, FALSE))]),
        table, t, prune_fault)

\* one resumption of collect_snapshots with what get_hyblock_raw returned or
\* raised: the snapshot is saved or the error counted, and the loop goes on
hyblock_returned(task, table, seq, hyblock, t, save_fault, prune_fault) ==
    LET stepped == save_symbol(task, table, seq, hyblock, t, save_fault)
        logged == [stepped.task EXCEPT
                        !.fetched = Append(@, Outcome(None, hyblock, save_fault))]
        next == next_symbol(logged, stepped.table, t, prune_fault)
    IN  [task |-> next.task, table |-> next.table, seq |-> stepped.seq,
         saved |-> stepped.result, called |-> next.called, result |-> next.result]

\* the price fetch task n awaits returns or raises
PriceReturns(n, price, prune_fault) ==
    /\ n \in DOMAIN tasks
    /\ tasks[n].pc = "price"
    /\ IF price = Raise
       THEN \E next \in {price_raised(tasks[n], rows, now, prune_fault)} :
                /\ tasks' = [tasks EXCEPT ![n] = next.task]
                /\ rows' = next.table
                /\ last_call' =
                    IF next.called
                    THEN [op |-> "cleanup_old_snapshots", days |-> RetentionDays,
                          result |-> next.result]
                    ELSE last_call
       ELSE /\ tasks' = [tasks EXCEPT ![n].price = price.value, ![n].pc = "hyblock"]
            /\ UNCHANGED <<rows, last_call>>
    /\ UNCHANGED <<now, cache_vars, sqlite_sequence, appends,
                   scheduler, schedulers, starts>>

\* the get_hyblock_raw task n awaits returns or raises; the snapshot is saved
HyblockReturns(n, hyblock, save_fault, prune_fault) ==
    /\ n \in DOMAIN tasks
    /\ tasks[n].pc = "hyblock"
    /\ \E next \in {hyblock_returned(tasks[n], rows, sqlite_sequence, hyblock, now,
                                     save_fault, prune_fault)} :
           /\ tasks' = [tasks EXCEPT ![n] = next.task]
           /\ rows' = next.table
           /\ sqlite_sequence' = next.seq
           /\ appends' =
                IF next.saved \in {None, Raise} THEN appends
                ELSE Append(appends,
                        [id |-> next.saved.value, symbol |-> SYMBOLS[tasks[n].i],
                         price |-> tasks[n].price,
                         clusters |-> get_data(hyblock.liquidation_levels)])
           /\ last_call' =
                IF next.called
                THEN [op |-> "cleanup_old_snapshots", days |-> RetentionDays,
                      result |-> next.result]
                ELSE IF next.saved # None
                THEN [op |-> "save_snapshot", result |-> next.saved]
                ELSE last_call
    /\ UNCHANGED <<now, cache_vars, scheduler, schedulers, starts>>

\* start_snapshot_scheduler without its guard on the global
start_unguarded(running) == FALSE

\* start_snapshot_scheduler's guard: if scheduler is not None
already_running(running) == running # None

\* start_snapshot_scheduler(binance_client, hyblock_client, interval_minutes)
Start(interval_minutes, MaxT) ==
    IF already_running(scheduler)
    THEN /\ last_call' = [op |-> "start_snapshot_scheduler",
                          interval_minutes |-> interval_minutes, warning |-> TRUE]
         /\ UNCHANGED <<now, cache_vars, store_vars, sched_vars>>
    ELSE /\ starts < MaxStarts
         /\ Len(tasks) < MaxT
         /\ starts' = starts + 1
         /\ schedulers' =
                [r \in DOMAIN schedulers \cup {starts + 1} |->
                    IF r = starts + 1
                    THEN [snapshot_collector |-> interval_minutes]
                    ELSE schedulers[r]]
         /\ scheduler' = [ref |-> starts + 1]
         /\ tasks' = Append(tasks, new_task("initial"))
         /\ last_call' = [op |-> "start_snapshot_scheduler",
                          interval_minutes |-> interval_minutes, warning |-> FALSE]
         /\ UNCHANGED <<now, cache_vars, store_vars>>

\* stop_snapshot_scheduler dropping the global without shutting the object down
shutdown_skipped(live, ref) == live

\* scheduler.shutdown(): the object stops running and its trigger fires no more
shutdown(live, ref) == [r \in DOMAIN live \ {ref} |-> live[r]]

\* stop_snapshot_scheduler()
Stop ==
    /\ IF scheduler # None
       THEN /\ schedulers' = shutdown(schedulers, scheduler.ref)
            /\ scheduler' = None
       ELSE UNCHANGED <<scheduler, schedulers>>
    /\ last_call' = [op |-> "stop_snapshot_scheduler"]
    /\ UNCHANGED <<now, cache_vars, store_vars, starts, tasks>>

\* the interval trigger of a running scheduler object fires and the executor
\* calls job_wrapper: called on the event loop's thread it finds the running
\* loop and creates the task of a tick; called on a worker thread,
\* asyncio.get_event_loop() finds no loop there and raises, and no tick starts
IntervalFire(ref, MaxT) ==
    /\ ref \in DOMAIN schedulers
    /\ \/ /\ Len(tasks) < MaxT
          /\ tasks' = Append(tasks, new_task("interval"))
          /\ last_call' = [op |-> "job_wrapper", result |-> None]
       \/ /\ tasks' = tasks
          /\ last_call' = [op |-> "job_wrapper", result |-> Raise]
    /\ UNCHANGED <<now, cache_vars, store_vars, scheduler, schedulers, starts>>

\* the Task object of a finished collect_snapshots is collected
Reap(n) ==
    /\ n \in DOMAIN tasks
    /\ tasks[n].pc \in {"done", "raised"}
    /\ tasks' = [tasks EXCEPT ![n] = [new_task(tasks[n].origin) EXCEPT !.pc = "collected"]]
    /\ UNCHANGED <<now, cache_vars, store_vars, last_call, scheduler, schedulers, starts>>

(***************************************************************************)
(* Specifications.                                                         *)
(***************************************************************************)
\* the tracker alone, under /status requests and the /snapshots reads
CacheInstants == {At(0, 0, 0), At(0, 0, 1)}
CacheHyblock == {Raise, [liquidation_levels |-> None],
                 [liquidation_levels |-> [data |-> <<ShortAbove>>]]}

NextCache ==
    \/ \E t \in CacheInstants : Advance(t)
    \/ \E symbol \in RequestSymbols, candles \in {Raise, [ok |-> TRUE]},
          hyblock \in CacheHyblock, price \in PriceResults :
            GetStatus(symbol, candles, hyblock, price, max_snapshots + MaxExtraPushes)
    \/ ListSnapshots
    \/ GetLatestSnapshot
    \/ \E timestamp \in {isoformat(t) : t \in CacheInstants} : GetSnapshot(timestamp)

SpecCache == Init /\ [][NextCache]_vars

\* the store alone, under direct calls of its functions and the /history reads
StoreInstants == {At(0, 0, 0), At(RetentionDays, 0, 0), At(RetentionDays, 1, 0)}
StoreLevels == {None, [data |-> <<>>], [data |-> <<ShortAbove, LongBelow>>]}
\* the symbols callers of save_snapshot pass: one as the scheduler writes it
\* and one in lower case
StoreSymbols == {"BTC", "sol"}

NextStore ==
    \/ \E t \in StoreInstants : Advance(t)
    \/ \E sym \in StoreSymbols, price \in Prices, clusters_data \in StoreLevels,
          fault \in BOOLEAN :
            SaveSnapshot(sym, price, clusters_data, fault, MaxSaves)
    \/ \E fault \in PruneFaults : CleanupOldSnapshots(RetentionDays, fault)
    \/ \E id \in 1..(MaxSaves + 1) : GetSnapshotDetail(id)
    \/ \E symbol \in RequestSymbols, limit \in 1..2 : GetSymbolHistory(symbol, 24, limit)
    \/ \E symbol \in RequestSymbols : GetSymbolLatest(symbol)
    \/ HistoryStats

SpecStore == Init /\ [][NextStore]_vars

\* the first tick of a scheduler that is started once, under every failure of
\* the data sources and of the store; the process starts at hour 0 of a day,
\* on an empty database or on one holding a row an earlier run saved more than
\* a retention period ago
TickInstants == {At(RetentionDays + 1, 0, 0), At(RetentionDays + 1, 1, 0)}
TickPrices == {Raise, [value |-> 100]}
TickHyblock == {Raise, [liquidation_levels |-> None],
                [liquidation_levels |-> [data |-> <<ShortAbove>>]]}
NoTaskInProgress == \A n \in DOMAIN tasks : ~InProgress(tasks[n])
PersistedRow == new_row({}, 0, "SOL", 100, [data |-> <<LongBelow>>], At(0, 0, 0))

InitTick ==
    /\ now = At(RetentionDays + 1, 0, 0)
    /\ snapshots = <<>>
    /\ pushed = <<>>
    /\ reading = None
    /\ objects = <<>>
    /\ \/ rows = {} /\ sqlite_sequence = 0
       \/ rows = {PersistedRow} /\ sqlite_sequence = PersistedRow.id
    /\ appends = <<>>
    /\ last_call = [op |-> "none"]
    /\ scheduler = None
    /\ schedulers = <<>>
    /\ starts = 0
    /\ tasks = <<>>

NextTick ==
    \/ \E t \in TickInstants : Advance(t)
    \/ \E minutes \in {1, 60} : Start(minutes, MaxTicks)
    \/ \E n \in 1..MaxTicks, price \in TickPrices, fault \in PruneFaults :
            PriceReturns(n, price, fault)
    \/ \E n \in 1..MaxTicks, hyblock \in TickHyblock, save_fault \in BOOLEAN,
          prune_fault \in PruneFaults :
            HyblockReturns(n, hyblock, save_fault, prune_fault)
    \/ \E n \in 1..MaxTicks : Reap(n)

SpecTick == InitTick /\ [][NextTick]_vars

\* the scheduler's life cycle, with ticks that may overlap and whose fetches
\* and saves all succeed (the clock stays at hour 0, so every tick prunes)
SchedHyblock == {[liquidation_levels |-> [data |-> <<ShortAbove>>]]}

NextSched ==
    \/ \E minutes \in {1, 60} : Start(minutes, MaxTicks)
    \/ Stop
    \/ \E ref \in 1..MaxStarts : IntervalFire(ref, MaxTicks)
    \/ \E n \in 1..MaxTicks : PriceReturns(n, [value |-> 100], "none")
    \/ \E n \in 1..MaxTicks, hyblock \in SchedHyblock :
            HyblockReturns(n, hyblock, FALSE, "none")
    \/ \E n \in 1..MaxTicks : Reap(n)

SpecSched == Init /\ [][NextSched]_vars

\* a step of some tick of the scheduler's specification
SchedTickStep ==
    \E n \in 1..MaxTicks :
        \/ PriceReturns(n, [value |-> 100], "none")
        \/ \E hyblock \in SchedHyblock : HyblockReturns(n, hyblock, FALSE, "none")

\* the event loop keeps running: the fetches ticks await return (each has a
\* timeout) and a tick is resumed
FairSched == SpecSched /\ WF_vars(SchedTickStep)

\* the store under saves, range reads and prunes at instants with and without
\* a microsecond part, a retention period apart
QueryInstants == {At(0, 0, 0), At(0, 0, 1), At(RetentionDays, 0, 0), At(RetentionDays, 0, 1)}
RetentionHours == RetentionDays * 24

NextQuery ==
    \/ \E t \in QueryInstants : Advance(t)
    \/ \E sym \in {"SOL", "BTC"} :
            SaveSnapshot(sym, 100, [data |-> <<ShortAbove>>], FALSE, MaxSaves)
    \/ \E fault \in PruneFaults : CleanupOldSnapshots(RetentionDays, fault)
    \/ \E limit \in 1..MaxSaves : GetSymbolHistory("solusdt", RetentionHours, limit)
    \/ GetSymbolLatest("solusdt")

SpecQuery == Init /\ [][NextQuery]_vars

\* the tracker read by handlers on worker threads while /status requests on
\* the event loop push to it
ReadHyblock == {[liquidation_levels |-> [data |-> <<ShortAbove>>]]}

NextRace ==
    \/ \E t \in CacheInstants : Advance(t)
    \/ \E hyblock \in ReadHyblock, price \in Prices :
            GetStatus("solusdt", [ok |-> TRUE], hyblock, [value |-> price],
                      max_snapshots + MaxExtraPushes)
    \/ \E timestamp \in {isoformat(t) : t \in CacheInstants} :
            \/ BeginRead("list_snapshots", timestamp)
            \/ BeginRead("get_snapshot", timestamp)
    \/ NextRead
    \/ GetLatestSnapshot

SpecRace == Init /\ [][NextRace]_vars

\* the three signal scores called with every input
NextSignal ==
    \E x \in ScoreInputs : WhaleScore(x) \/ FundingScore(x) \/ LsScore(x)

SpecSignal == Init /\ [][NextSignal]_vars

\* the confluence score called with every sub-score of the grid
NextScore ==
    \E magnet_score \in SubScores, whale_score \in SubScores,
       funding_score \in SubScores, ls_score \in SubScores :
        ConfluenceScore(magnet_score, whale_score, funding_score, ls_score)

SpecScore == Init /\ [][NextScore]_vars

\* the confluence label for sub-scores around its thresholds
NextLabel ==
    \E magnet_score \in LabelScores, whale_score \in LabelScores,
       funding_score \in LabelScores, ls_score \in LabelScores :
        ConfluenceLabel(magnet_score, whale_score, funding_score, ls_score)

SpecLabel == Init /\ [][NextLabel]_vars

\* one call of the magnet score with every current price and cluster list
InitMagnet ==
    /\ now = At(0, 0, 0)
    /\ snapshots = <<>>
    /\ pushed = <<>>
    /\ reading = None
    /\ objects = <<>>
    /\ rows = {}
    /\ sqlite_sequence = 0
    /\ appends = <<>>
    /\ \E current_price \in CurrentPrices,
          clusters \in ListsUpTo(ClusterRecords, MaxClusters) :
           last_call = [op |-> "call", current_price |-> current_price,
                        clusters |-> clusters]
    /\ scheduler = None
    /\ schedulers = <<>>
    /\ starts = 0
    /\ tasks = <<>>

NextMagnet == MagnetScore

SpecMagnet == InitMagnet /\ [][NextMagnet]_vars

\* the confluence of every output of the scoring engine
NextEngine ==
    \E magnet_score \in MagnetEighths, whale_score \in SignalScores,
       funding_score \in SignalScores, ls_score \in SignalScores :
        ConfluenceOfEngine(magnet_score, whale_score, funding_score, ls_score)

SpecEngine == Init /\ [][NextEngine]_vars

\* the tracker under callers that keep and later change what they pushed
CopyData == {None, [data |-> <<ShortAbove>>], [data |-> <<ShortAbove, LongBelow>>]}

NextCopy ==
    \/ \E t \in CacheInstants : Advance(t)
    \/ \E hyblock_data \in CopyData :
            TrackerSave(hyblock_data, 100, max_snapshots + MaxExtraPushes)
    \/ \E k \in 1..(max_snapshots + MaxExtraPushes) : CallerClears(k)
    \/ ListSnapshots
    \/ GetLatestSnapshot
    \/ \E timestamp \in {isoformat(t) : t \in CacheInstants} : GetSnapshot(timestamp)

SpecCopy == Init /\ [][NextCopy]_vars

\* the whole service as api.py runs it: requests to the cache and to the
\* /history reads, and the scheduler whose ticks save and, at hour 0, prune,
\* over a clock that passes the retention period
Instants == {At(0, 0, 0), At(RetentionDays + 1, 0, 0)}
StatusHyblock == {[liquidation_levels |-> [data |-> <<ShortAbove>>]]}

Next ==
    \/ \E t \in Instants : Advance(t)
    \/ \E hyblock \in StatusHyblock :
            GetStatus("solusdt", [ok |-> TRUE], hyblock, [value |-> 100], MaxExtraPushes)
    \/ ListSnapshots
    \/ GetLatestSnapshot
    \/ \E timestamp \in {isoformat(t) : t \in Instants} : GetSnapshot(timestamp)
    \/ \E id \in 1..MaxSaves : GetSnapshotDetail(id)
    \/ GetSymbolHistory("solusdt", 24, 1)
    \/ GetSymbolLatest("solusdt")
    \/ HistoryStats
    \/ Start(60, MaxTicks)
    \/ Stop
    \/ \E ref \in 1..MaxStarts : IntervalFire(ref, MaxTicks)
    \/ \E n \in 1..MaxTicks : PriceReturns(n, [value |-> 100], "none")
    \/ \E n \in 1..MaxTicks, hyblock \in SchedHyblock :
            HyblockReturns(n, hyblock, FALSE, "none")
    \/ \E n \in 1..MaxTicks : Reap(n)

Spec == Init /\ [][Next]_vars

(***************************************************************************)
(* Properties.                                                             *)
(***************************************************************************)
\* the last n elements of a sequence
LastN(s, n) == SubSeq(s, Len(s) - n + 1, Len(s))

\* C1: the tracker never holds more than max_snapshots entries, and the
\* entries are exactly the min(max_snapshots, number of pushes) most recently
\* pushed ones, in push order (so a push at capacity drops the oldest entry
\* and nothing else)
CacheKeepsNewest ==
    LET n == Min2(max_snapshots, Len(pushed))
        kept == LastN(pushed, n)
    IN  /\ Len(snapshots) <= max_snapshots
        /\ Len(snapshots) = n
        /\ \A i \in 1..n :
            snapshots[i] = new_snapshot(kept[i].data, kept[i].price, kept[i].at)

\* C1 witness: one push more than the capacity, of data that differs
CacheEvicted ==
    /\ Len(pushed) = max_snapshots + 1
    /\ pushed[1].data # pushed[2].data
    /\ Len(snapshots) = max_snapshots

\* C2: get_latest returns None on a tracker never pushed to, and otherwise an
\* entry with the data and the price of the last push; GET /snapshots/latest
\* answers 404 or that entry accordingly
LatestIsLastPush ==
    /\ IF pushed = <<>>
       THEN get_latest(snapshots) = None
       ELSE /\ get_latest(snapshots) # None
            /\ get_latest(snapshots).data = Last(pushed).data
            /\ get_latest(snapshots).price_at_snapshot = Last(pushed).price
    /\ last_call.op = "get_latest_snapshot" =>
        IF pushed = <<>>
        THEN last_call.status = 404
        ELSE /\ last_call.status = 200
             /\ last_call.snapshot.data = Last(pushed).data
             /\ last_call.snapshot.price_at_snapshot = Last(pushed).price

\* C2 witness: the latest entry is read after a push that evicted an entry
\* with other data and another price
LatestReadAfterPush ==
    /\ last_call.op = "get_latest_snapshot"
    /\ Len(pushed) > max_snapshots
    /\ Last(pushed).data # pushed[1].data
    /\ Last(pushed).price # pushed[1].price

Finished(task) == task.pc \in {"done", "raised"}

\* the positions of a tick's symbols whose fetches succeeded and whose row was stored
FetchedAt(task) == {k \in DOMAIN task.fetched : task.fetched[k] = "fetched"}

\* C3: a finished tick whose cleanup did not fail has gone through every
\* tracked symbol whatever fetches failed: it saved one snapshot per symbol
\* whose price and signal were both fetched, counted one error per other
\* symbol, and returned without an exception
TickIsolatesFailures ==
    \A n \in DOMAIN tasks :
        LET task == tasks[n]
        IN  Finished(task) /\ task.prune # "failed" =>
                /\ task.pc = "done"
                /\ Len(task.fetched) = Len(SYMBOLS)
                /\ task.saved = Cardinality(FetchedAt(task))
                /\ task.errors = Len(SYMBOLS) - Cardinality(FetchedAt(task))
                /\ {a.symbol : a \in Range(appends)} = {SYMBOLS[k] : k \in FetchedAt(task)}
                /\ Len(appends) = task.saved

\* C3 witness: the price fetch of BTC raised, SOL and ETH were fetched and saved
BtcFailedOthersSaved ==
    \E n \in DOMAIN tasks :
        /\ tasks[n].pc = "done"
        /\ tasks[n].fetched = <<"fetched", "price raised", "fetched">>
        /\ tasks[n].saved = 2
        /\ tasks[n].errors = 1

\* C4 as claimed: a tick whose cleanup_old_snapshots(days=30) failed at hour 0
\* ends without an exception leaving it, and the scheduler is still running
PruneFailureContained ==
    \A n \in DOMAIN tasks :
        tasks[n].prune = "failed" => tasks[n].pc = "done" /\ scheduler # None

\* the tasks created by start_snapshot_scheduler's initial collection
InitialTasks(ts) == {n \in DOMAIN ts : ts[n].origin = "initial"}

\* the tasks created by the interval trigger
IntervalTasks(ts) == {n \in DOMAIN ts : ts[n].origin = "interval"}

\* C5: at most one recurring job exists at any time, and while the scheduler
\* is running no step except a stop changes the global, the job or its
\* interval, or launches an initial collection
SingleJobWhileRunning ==
    /\ [](Cardinality(DOMAIN schedulers) <= 1)
    /\ [][scheduler # None /\ scheduler' # None =>
            /\ scheduler' = scheduler
            /\ schedulers' = schedulers
            /\ starts' = starts
            /\ InitialTasks(tasks') = InitialTasks(tasks)]_vars

\* C5 witness: start was called with another interval while the scheduler was
\* running
StartedTwice ==
    /\ last_call.op = "start_snapshot_scheduler"
    /\ last_call.warning
    /\ scheduler # None
    /\ schedulers[scheduler.ref].snapshot_collector # last_call.interval_minutes

\* tick n has been created and has not ended
TickInProgress(n) == n \in DOMAIN tasks /\ InProgress(tasks[n])

\* a step of stop_snapshot_scheduler
StopStep == last_call' # last_call /\ last_call'.op = "stop_snapshot_scheduler"

\* C6: stop leaves the scheduler stopped with no running scheduler object, the
\* interval trigger creates a tick only while the scheduler is running, stop
\* leaves every tick as it is, a stop of a stopped scheduler changes nothing,
\* and every tick in progress goes on to its end
StopEndsTriggerOnly ==
    /\ [][StopStep => scheduler' = None]_vars
    /\ [](scheduler = None => DOMAIN schedulers = {})
    /\ [][IntervalTasks(tasks') # IntervalTasks(tasks) => scheduler # None]_vars
    /\ [][StopStep \/ (scheduler # None /\ scheduler' = None) => tasks' = tasks]_vars
    /\ [][StopStep /\ scheduler = None =>
            UNCHANGED <<now, cache_vars, store_vars, sched_vars>>]_vars
    /\ \A n \in 1..MaxTicks : TickInProgress(n) ~> ~TickInProgress(n)

\* C6 witness: the scheduler was stopped while a tick was in progress
StoppedDuringTick ==
    /\ last_call.op = "stop_snapshot_scheduler"
    /\ scheduler = None
    /\ starts > 0
    /\ \E n \in DOMAIN tasks : InProgress(tasks[n]) /\ tasks[n].i > 1

\* C7 as claimed: at most one collection tick is in progress at any time
TicksNeverOverlap ==
    Cardinality({n \in DOMAIN tasks : InProgress(tasks[n])}) <= 1

\* C8: the ids save_snapshot returns are strictly increasing, also across
\* deletions by cleanup_old_snapshots
IdsStrictlyIncrease ==
    \A i, j \in DOMAIN appends : i < j => appends[i].id < appends[j].id

\* C8 witness: a row was saved after every earlier row had been deleted
SavedAfterPrune ==
    \E j \in DOMAIN appends :
        /\ j > 1
        /\ appends[j].id \in {r.id : r \in rows}
        /\ \A i \in 1..(j - 1) : appends[i].id \notin {r.id : r \in rows}

\* what get_snapshot_by_id gives for the id of the k-th successful save
ReadBack(k) == get_snapshot_by_id(rows, appends[k].id)

\* right after a successful save the row of the returned id is in the table
SavedRowIsThere ==
    (last_call.op = "save_snapshot" /\ last_call.result # Raise) =>
        ReadBack(Len(appends)) # None

\* C9 as claimed: get_snapshot_by_id of an id save_snapshot returned gives,
\* for every symbol, the same symbol, the same price and the same cluster
\* list in the same order as were passed to save_snapshot
ReadsBackSameSymbol ==
    /\ SavedRowIsThere
    /\ \A k \in DOMAIN appends :
        ReadBack(k) # None =>
            /\ ReadBack(k).symbol = appends[k].symbol
            /\ ReadBack(k).price = appends[k].price
            /\ ReadBack(k).clusters = appends[k].clusters

\* C9: get_snapshot_by_id of an id save_snapshot returned gives, as long as the
\* row has not been deleted, the price and the cluster list that were saved, in
\* the same order, and the symbol in upper case, which is the symbol that was
\* saved when it is one of SYMBOLS; right after the save the row is there; GET
\* /history/snapshot/{id} answers with that snapshot
SavedSnapshotReadsBack ==
    /\ SavedRowIsThere
    /\ \A k \in DOMAIN appends :
        ReadBack(k) # None =>
            /\ ReadBack(k).symbol = upper(appends[k].symbol)
            /\ appends[k].symbol \in Range(SYMBOLS) =>
                    ReadBack(k).symbol = appends[k].symbol
            /\ ReadBack(k).price = appends[k].price
            /\ ReadBack(k).clusters = appends[k].clusters
    /\ last_call.op = "get_snapshot_detail" /\ last_call.status = 200 =>
        \E k \in DOMAIN appends :
            /\ appends[k].id = last_call.snapshot.id
            /\ upper(appends[k].symbol) = last_call.snapshot.symbol
            /\ appends[k].price = last_call.snapshot.price
            /\ appends[k].clusters = last_call.snapshot.clusters

\* C9 witness: a snapshot of two clusters that was saved under a lower-case
\* symbol is read back by its id while a second snapshot with another price is
\* stored
TwoClustersReadBack ==
    /\ last_call.op = "get_snapshot_detail"
    /\ last_call.status = 200
    /\ Len(last_call.snapshot.clusters) = 2
    /\ \E k \in DOMAIN appends :
        /\ appends[k].id = last_call.snapshot.id
        /\ appends[k].symbol \notin Range(SYMBOLS)
    /\ \E r \in rows : r.price # last_call.snapshot.price

\* C10: under every operation of the store, the cache, the scheduler and its
\* ticks, a row that is in the table stays in it with the same id, timestamp,
\* symbol, price, cluster count and cluster list, unless the step is a
\* cleanup_old_snapshots and the row is older than its cutoff
RowsImmutable ==
    [][/\ \A r \in rows :
            \/ r \in rows'
            \/ /\ last_call'.op = "cleanup_old_snapshots"
               /\ r \in old_rows(rows, last_call'.days, now)
       /\ \A r \in rows, q \in rows' : q.id = r.id => q = r]_vars

\* C10 witness: the first saved row was deleted by the cleanup_old_snapshots
\* of a tick while the row saved after it is kept and read back unchanged,
\* after the cache was pushed to and the scheduler was started
PrunedRowGoneOthersKept ==
    /\ Len(appends) >= 2
    /\ appends[1].id \notin {r.id : r \in rows}
    /\ Len(pushed) > 0
    /\ starts > 0
    /\ last_call.op = "get_snapshot_detail"
    /\ last_call.status = 200
    /\ last_call.snapshot.id = appends[2].id
    /\ last_call.snapshot.symbol = appends[2].symbol
    /\ last_call.snapshot.timestamp = isoformat(now)

\* the instant a stored timestamp was printed from
TimeOf(timestamp) ==
    IF Len(timestamp) = 3
    THEN At(timestamp[1], timestamp[2], 0)
    ELSE At(timestamp[1], timestamp[2], timestamp[4])

\* the rows of the symbol that are newer than hours before instant t
Qualifying(table, symbol, hours, t) ==
    {r \in table : /\ r.symbol = symbol
                   /\ TimeLess(MinusHours(t, hours), TimeOf(r.timestamp))}

\* C11 as claimed: GET /history/{symbol} returns at most limit rows, all of the
\* requested symbol and none older than hours before the call, newest first,
\* and when more than limit rows qualify they are the limit newest of them
RangeQueryNewestWithinHours ==
    [][(last_call' # last_call /\ last_call'.op = "get_symbol_history"
            /\ last_call'.status = 200) =>
        LET found == last_call'.snapshots
            cutoff == MinusHours(now, last_call'.hours)
            Q == Qualifying(rows, last_call'.symbol, last_call'.hours, now)
        IN  /\ Len(found) <= last_call'.limit
            /\ \A i \in DOMAIN found :
                /\ found[i] \in {summary(r) : r \in rows}
                /\ found[i].symbol = last_call'.symbol
                /\ ~TimeLess(TimeOf(found[i].timestamp), cutoff)
            /\ \A i, j \in DOMAIN found :
                    i < j => ~TimeLess(TimeOf(found[i].timestamp),
                                       TimeOf(found[j].timestamp))
            /\ Cardinality(Q) > last_call'.limit =>
                /\ Len(found) = last_call'.limit
                /\ \A r \in Q :
                    summary(r) \notin Range(found) =>
                        \A i \in DOMAIN found :
                            ~TimeLess(TimeOf(found[i].timestamp), TimeOf(r.timestamp))
      ]_vars

\* a step of cleanup_old_snapshots that returned
PruneStep ==
    /\ last_call'.op = "cleanup_old_snapshots"
    /\ last_call'.result # Raise
    /\ last_call' # last_call \/ rows' # rows

\* the rows whose instant is strictly older than days before instant t
Expired(table, days, t) ==
    {r \in table : TimeLess(TimeOf(r.timestamp), MinusDays(t, days))}

\* C12 as claimed: cleanup_old_snapshots(days) deletes exactly the rows that
\* are strictly older than now - days and returns their number, changes
\* nothing and returns 0 when there is none, and called again at once it
\* returns 0
PruneDeletesExactlyExpired ==
    [][PruneStep =>
        /\ rows' = rows \ Expired(rows, last_call'.days, now)
        /\ last_call'.result.value = Cardinality(Expired(rows, last_call'.days, now))
        /\ Expired(rows, last_call'.days, now) = {} =>
                rows' = rows /\ last_call'.result.value = 0
        /\ cleanup_old_snapshots(rows', last_call'.days, now, "none") =
                [table |-> rows', result |-> [value |-> 0]]
      ]_vars

\* a step of start_snapshot_scheduler that started a scheduler
StartedStep == starts' = starts + 1

\* a step in which the interval trigger ran job_wrapper
JobStep ==
    /\ last_call'.op = "job_wrapper"
    /\ last_call' # last_call \/ tasks' # tasks

\* C13 as claimed: start on a stopped scheduler leaves it running with a job of
\* the given interval and launches one collection at once, and every firing of
\* the interval trigger of the running scheduler launches a collection
StartRunsNowAndEveryInterval ==
    /\ [][StartedStep =>
            /\ scheduler = None /\ scheduler' # None
            /\ schedulers'[scheduler'.ref].snapshot_collector =
                    last_call'.interval_minutes
            /\ Cardinality(InitialTasks(tasks')) = Cardinality(InitialTasks(tasks)) + 1
            /\ TickInProgress(Len(tasks))']_vars
    /\ [][JobStep =>
            /\ scheduler # None
            /\ Cardinality(IntervalTasks(tasks')) =
                    Cardinality(IntervalTasks(tasks)) + 1]_vars

\* the positions of a tick's symbols whose save_snapshot met a storage fault
FaultedAt(task) == {k \in DOMAIN task.fetched : task.fetched[k] = "storage fault"}

\* C14: save_snapshot meeting a storage fault raises and stores nothing; a tick
\* in which that happens for a symbol counts one error for it and adds no row
\* for it, goes on through the remaining symbols, ends without an exception
\* unless its cleanup fails, and leaves the scheduler running with its job
StorageFaultCounted ==
    /\ \A sym \in Range(SYMBOLS), levels \in TickHyblock \ {Raise} :
            save_snapshot(rows, sqlite_sequence, sym, 100, levels.liquidation_levels,
                          now, TRUE) =
                [table |-> rows, seq |-> sqlite_sequence, result |-> Raise]
    /\ \A n \in DOMAIN tasks :
        LET task == tasks[n]
        IN  FaultedAt(task) # {} =>
                /\ task.errors >= Cardinality(FaultedAt(task))
                /\ task.saved + task.errors = Len(task.fetched)
                /\ task.saved = Cardinality(FetchedAt(task))
                /\ \A k \in FaultedAt(task) :
                        SYMBOLS[k] \notin {a.symbol : a \in Range(appends)}
                /\ InProgress(task) => task.i = Len(task.fetched) + 1
                /\ Finished(task) => Len(task.fetched) = Len(SYMBOLS)
                /\ task.pc = "raised" => task.prune = "failed"
                /\ scheduler # None /\ scheduler.ref \in DOMAIN schedulers

\* C14 witness: a tick ended normally in which the save for BTC met a storage
\* fault and the rows of SOL and ETH were stored
BtcSaveFaultedOthersStored ==
    \E n \in DOMAIN tasks :
        /\ tasks[n].pc = "done"
        /\ tasks[n].fetched = <<"fetched", "storage fault", "fetched">>
        /\ tasks[n].saved = 2
        /\ tasks[n].errors = 1
        /\ {a.symbol : a \in Range(appends)} = {"SOL", "ETH"}

\* C15 as claimed: no two entries held by the tracker have the same timestamp
CacheTimestampsUnique ==
    \A i, j \in DOMAIN snapshots :
        i # j => snapshots[i].timestamp # snapshots[j].timestamp

\* a step of the /status handler
StatusStep ==
    /\ last_call'.op = "get_status"
    /\ last_call' # last_call \/ pushed' # pushed

\* a step in which a collect_snapshots task ends
TickEndStep ==
    \E n \in DOMAIN tasks : InProgress(tasks[n]) /\ Finished(tasks'[n])

\* C16: a /status request leaves the table, its id sequence and every row as
\* they are and at most appends one entry to the tracker, and a step that
\* calls cleanup_old_snapshots or removes a row is the end of a tick
StatusPathNeverPrunes ==
    /\ [][StatusStep =>
            /\ UNCHANGED <<rows, sqlite_sequence, appends>>
            /\ \/ UNCHANGED <<snapshots, pushed>>
               \/ /\ Len(pushed') = Len(pushed) + 1
                  /\ snapshots' # <<>>
                  /\ \A i \in 1..(Len(snapshots') - 1) :
                        snapshots'[i] \in Range(snapshots)]_vars
    /\ [][(\/ \E r \in rows : r \notin rows'
           \/ last_call'.op = "cleanup_old_snapshots" /\ last_call' # last_call)
            => TickEndStep]_vars

\* C16 witness: a /status request pushed to the tracker at hour 0 while the
\* table held a row older than the retention period, and the row is still there
PushedWhileExpiredRowKept ==
    /\ last_call.op = "get_status"
    /\ last_call.status = 200
    /\ Len(pushed) > 0
    /\ Last(pushed).at = now
    /\ HourOf(now) = 0
    /\ old_rows(rows, RetentionDays, now) # {}

\* C17: for every request the answer of GET /status when the side-save's price
\* fetch raises is the answer it gives when the side-save succeeds, and a
\* request answered 200 that pushed nothing left the tracker as it was and was
\* answered as a request whose side-save succeeded is
SideSaveFailureSwallowed ==
    /\ \A symbol \in RequestSymbols, candles \in {Raise, [ok |-> TRUE]},
          hyblock \in CacheHyblock, price \in Prices :
            get_status(symbol, candles, hyblock, Raise) =
                get_status(symbol, candles, hyblock, [value |-> price])
    /\ (last_call.op = "get_status" /\ last_call.status = 200) =>
            \E symbol \in RequestSymbols, price \in Prices :
                last_call = [op |-> "get_status"] @@
                    get_status(symbol, [ok |-> TRUE], last_call.hyblock,
                               [value |-> price])
    /\ (last_call.op = "get_status" /\ pushed = <<>>) => snapshots = <<>>

\* C17 witness: a request for BTC was answered 200 with liquidation levels
\* while nothing was ever pushed: the price fetch of its side-save raised
AnsweredThoughSideSaveFailed ==
    /\ last_call.op = "get_status"
    /\ last_call.status = 200
    /\ last_call.symbol = "BTC"
    /\ "liquidation_levels" \in DOMAIN last_call.hyblock
    /\ last_call.hyblock.liquidation_levels # None
    /\ pushed = <<>>

\* what a read started on the deque q answers when nothing interleaves
Uninterrupted(op, timestamp, q) ==
    IF op = "list_snapshots"
    THEN [op |-> op, status |-> 200, count |-> Len(q),
          snapshots |-> list_snapshots(q).items]
    ELSE IF get_snapshot(q, timestamp) = None
    THEN [op |-> op, status |-> 404]
    ELSE [op |-> op, status |-> 200, snapshot |-> get_snapshot(q, timestamp)]

\* C18 as claimed: the tracker never holds more than its capacity, and a read
\* on a worker thread that /status pushes interleave with does not fail and
\* answers with the contents as they were when it began or as they are when
\* it ends
ReadsSafeUnderPush ==
    /\ [](Len(snapshots) <= max_snapshots)
    /\ [][(reading # None /\ reading' = None) =>
            /\ last_call'.status # 500
            /\ \/ last_call' = Uninterrupted(reading.op, reading.timestamp,
                                             reading.before)
               \/ last_call' = Uninterrupted(reading.op, reading.timestamp,
                                             snapshots)]_vars

\* the inputs that are absent or no number
NonNumeric == {None, NaN, Text, PyList}

\* C19 as claimed: the three scores never raise, give 0 for an input that is
\* absent or no number, and for a number: whale +1 iff delta > 5, -1 iff
\* delta < -5; funding +1 iff rate < -0.0001, -1 iff rate > 0.0001; ls -1 iff
\* ratio > 2.0, +1 iff 0 < ratio <= 2.0; else 0
SignalScoresTotal ==
    last_call.op \in {"calculate_whale_score", "calculate_funding_score",
                      "calculate_ls_score"} =>
        LET x == last_call.input
            r == last_call.result
            numeric == x.py \in {"float", "int"} /\ x \notin NonNumeric
            above(t) == x.py = "int" \/ (x.py = "float" /\ x.value > t)
            below(t) == x.py = "float" /\ x.value < t
        IN  /\ r # Raise
            /\ r.value \in {-1, 0, 1}
            /\ x \in NonNumeric => r.value = 0
            /\ (numeric /\ last_call.op = "calculate_whale_score") =>
                /\ r.value = 1 <=> above(WhaleThreshold)
                /\ r.value = -1 <=> below(-WhaleThreshold)
            /\ (numeric /\ last_call.op = "calculate_funding_score") =>
                /\ r.value = 1 <=> below(-FundingThreshold)
                /\ r.value = -1 <=> above(FundingThreshold)
            /\ (numeric /\ last_call.op = "calculate_ls_score") =>
                /\ r.value = -1 <=> above(LsThreshold)
                /\ r.value = 1 <=> (~above(LsThreshold) /\ above(0))

\* C20: with the default weights and every sub-score in [-1, 1], the combined
\* score the confluence returns has magnitude at most 1 (10000 units of 0.0001)
ConfluenceScoreBounded ==
    last_call.op = "calculate_confluence_score" =>
        /\ \A i \in 1..4 : last_call.input[i] \in SubScores
        /\ last_call.result.score <= 10000
        /\ last_call.result.score >= -10000

\* every signal fully bullish: the combined score is exactly 1
AllBullishScoresOne ==
    /\ last_call.op = "calculate_confluence_score"
    /\ last_call.input = <<ScoreGrid, ScoreGrid, ScoreGrid, ScoreGrid>>
    /\ last_call.result.score = 10000

\* C21: the reported bullish and bearish counts are the numbers of sub-scores
\* above 0.3 and below -0.3; the label is HIGH_BULLISH_CONFLUENCE iff at least
\* 3 are above 0.3, HIGH_BEARISH_CONFLUENCE iff at least 3 are below -0.3,
\* MODERATE_BULLISH iff exactly 2 are above and none below, MODERATE_BEARISH
\* iff exactly 2 are below and none above, MIXED_SIGNALS otherwise
ConfluenceLabelByCounts ==
    (last_call.op = "calculate_confluence_score" /\ "unit" \in DOMAIN last_call) =>
        LET tenths == last_call.input
            r == last_call.result
            up == Cardinality({i \in 1..4 : tenths[i] > 3})
            down == Cardinality({i \in 1..4 : tenths[i] < -3})
            label == r.confluence
        IN  /\ r.bullish_signals = up
            /\ r.bearish_signals = down
            /\ label = "HIGH_BULLISH_CONFLUENCE" <=> up >= 3
            /\ label = "HIGH_BEARISH_CONFLUENCE" <=> down >= 3
            /\ label = "MODERATE_BULLISH" <=> (up = 2 /\ down = 0)
            /\ label = "MODERATE_BEARISH" <=> (down = 2 /\ up = 0)
            /\ label = "MIXED_SIGNALS" <=>
                   ~(up >= 3 \/ down >= 3 \/ (up = 2 /\ down = 0) \/ (down = 2 /\ up = 0))

\* two sub-scores above 0.3 and two exactly 0.3: the label is MODERATE_BULLISH
TwoAboveTwoAtThreshold ==
    /\ last_call.op = "calculate_confluence_score"
    /\ "unit" \in DOMAIN last_call
    /\ last_call.input = <<4, 3, 4, 3>>
    /\ last_call.result.confluence = "MODERATE_BULLISH"
    /\ last_call.result.bullish_signals = 2

\* the call of the magnet score has returned
MagnetReturned == last_call.op = "calculate_liquidation_magnet_score"

\* C22 as claimed: for every current price and every cluster list the magnet
\* score returns a value in [-1, 1], and exactly 0 when the list is empty, when
\* current_price is missing or <= 0, or when no cluster was added to either sum
MagnetScoreBoundedAndNeutral ==
    MagnetReturned =>
        LET r == last_call.result
        IN  /\ r # Raise
            /\ ~r.nan
            /\ r.value >= -10000 /\ r.value <= 10000
            /\ last_call.clusters = <<>> => r.value = 0
            /\ last_call.current_price = None => r.value = 0
            /\ (last_call.current_price # None /\ Le(last_call.current_price, 0))
                   => r.value = 0
            /\ (last_call.looped /\ last_call.sums # Raise
                /\ last_call.sums.bullish = Zero
                /\ last_call.sums.bearish = Zero) => r.value = 0

\* a record the claim calls malformed: price, size or side missing, price or
\* size that is no number, size <= 0, or a side other than short and long
NotANumber(x) == x.py = "str" \/ x.py = "list" \/ (x.py = "float" /\ x.nan)
Malformed(cluster) ==
    \/ cluster.price = None \/ cluster.size = None \/ cluster.side = None
    \/ NotANumber(cluster.price) \/ NotANumber(cluster.size)
    \/ (cluster.size.py = "float" /\ Le(cluster.size, 0))
    \/ cluster.side \notin {Side("short"), Side("long")}
WellFormed(cluster) == ~Malformed(cluster)

\* C23 as claimed: the magnet score of a list equals the score of the same list
\* without its malformed records, and a list whose only irregular records are
\* malformed ones does not raise
MalformedClustersSkipped ==
    MagnetReturned =>
        LET kept == SelectSeq(last_call.clusters, WellFormed)
            without == calculate_liquidation_magnet_score(last_call.current_price, kept)
        IN  /\ last_call.result = without
            /\ without # Raise => last_call.result # Raise

\* the clusters of the call that are well-formed with a finite size, by their
\* place and side
FiniteValid(cluster) ==
    WellFormed(cluster) /\ cluster.price.py = "float" /\ cluster.size.py = "float"
    /\ "huge" \notin DOMAIN cluster.size
AtPrice(cluster, side) ==
    /\ FiniteValid(cluster)
    /\ cluster.price = last_call.current_price
    /\ cluster.side = Side(side)
WrongSide(cluster) ==
    /\ FiniteValid(cluster)
    /\ \/ cluster.side = Side("short") /\ Lt(cluster.price, last_call.current_price.value)
       \/ cluster.side = Side("long") /\ Gt(cluster.price, last_call.current_price.value)

RECURSIVE FullSizes(_, _, _)
FullSizes(clusters, side, n) ==
    IF n = 0 THEN 0
    ELSE FullSizes(clusters, side, n - 1)
         + (IF AtPrice(clusters[n], side) THEN clusters[n].size.value ELSE 0)

\* C27: in a list whose valid clusters are all at the current price or on the
\* wrong side of it (short below, long above), the bullish sum is the sum of
\* the full sizes of the short clusters at the price and the bearish sum that
\* of the long clusters at the price: each is counted once, in one sum, with
\* weight 1, and the clusters on the wrong side are in neither sum
TieCountsOnceBySide ==
    (/\ MagnetReturned
     /\ last_call.looped
     /\ ~last_call.current_price.nan
     /\ \A i \in 1..Len(last_call.clusters) :
            LET c == last_call.clusters[i]
            IN  FiniteValid(c) /\ (AtPrice(c, "short") \/ AtPrice(c, "long") \/ WrongSide(c)))
    => /\ last_call.sums # Raise
       /\ last_call.sums.bullish =
              Float(FALSE, 0, FullSizes(last_call.clusters, "short",
                                        Len(last_call.clusters)) \div reference_volume)
       /\ last_call.sums.bearish =
              Float(FALSE, 0, FullSizes(last_call.clusters, "long",
                                        Len(last_call.clusters)) \div reference_volume)

\* a short cluster at the price and a short cluster below it: the bullish sum
\* is the first one's full size and the bearish sum is zero
ShortAtPriceCountedAlone ==
    /\ MagnetReturned
    /\ last_call.current_price = Number(100)
    /\ last_call.clusters = <<Cluster(Number(100), Number(1000), Side("short")),
                              Cluster(Number(90), Number(1000), Side("short"))>>
    /\ last_call.sums.bullish = Float(FALSE, 0, 1000 \div reference_volume)
    /\ last_call.sums.bearish = Zero
    /\ last_call.result = Number(8415)

\* C24 as claimed: every firing of the interval trigger of the running
\* scheduler creates a collection tick, also while an earlier tick is still in
\* progress, and every tick created goes on to its end
TriggerNeverSkipped ==
    /\ [][JobStep =>
            \E n \in DOMAIN tasks' :
                /\ n \notin DOMAIN tasks
                /\ tasks'[n].origin = "interval"
                /\ InProgress(tasks'[n])]_vars
    /\ \A n \in 1..MaxTicks : TickInProgress(n) ~> ~TickInProgress(n)

\* the positions of a tick's symbols for which get_hyblock_raw returned absent
\* liquidation levels after the price was fetched
AbsentAt(task) == {k \in DOMAIN task.fetched : task.fetched[k] = "signal absent"}

\* a step in which tick n took the signal of its symbol and found it absent
AbsentStep(n) ==
    /\ n \in DOMAIN tasks /\ n \in DOMAIN tasks'
    /\ Len(tasks'[n].fetched) = Len(tasks[n].fetched) + 1
    /\ Last(tasks'[n].fetched) = "signal absent"

\* C25: a symbol whose liquidation levels came back absent gets no row, counts
\* exactly one error and no save, and the tick goes on with the next symbol
AbsentSignalCounted ==
    /\ [][\A n \in 1..MaxTicks :
            AbsentStep(n) =>
                /\ tasks'[n].errors = tasks[n].errors + 1
                /\ tasks'[n].saved = tasks[n].saved
                /\ appends' = appends
                /\ sqlite_sequence' = sqlite_sequence
                /\ rows' \subseteq rows
                /\ IF tasks[n].i < Len(SYMBOLS)
                   THEN tasks'[n].i = tasks[n].i + 1 /\ tasks'[n].pc = "price"
                   ELSE Finished(tasks'[n])]_vars
    /\ [](\A n \in DOMAIN tasks :
            LET task == tasks[n]
            IN  AbsentAt(task) # {} =>
                    /\ task.saved = Cardinality(FetchedAt(task))
                    /\ task.errors = Len(task.fetched) - Cardinality(FetchedAt(task))
                    /\ \A k \in AbsentAt(task) :
                            SYMBOLS[k] \notin {a.symbol : a \in Range(appends)}
                    /\ InProgress(task) => task.i = Len(task.fetched) + 1
                    /\ Finished(task) => Len(task.fetched) = Len(SYMBOLS))

\* a tick ended in which the levels of BTC were absent and the rows of SOL and
\* ETH were stored
BtcAbsentOthersStored ==
    \E n \in DOMAIN tasks :
        /\ tasks[n].pc = "done"
        /\ tasks[n].fetched = <<"fetched", "signal absent", "fetched">>
        /\ tasks[n].saved = 2
        /\ tasks[n].errors = 1
        /\ {a.symbol : a \in Range(appends)} = {"SOL", "ETH"}

\* a step of GET /history/{symbol}/latest for a tracked symbol
LatestStep ==
    /\ last_call' # last_call
    /\ last_call'.op = "get_symbol_latest"
    /\ last_call'.status \in {200, 404}

\* C26 as claimed: get_latest(symbol) returns the row with the greatest id among
\* the rows of that symbol in the store, with the cluster list that was
\* appended under that id, and not-found exactly when the store holds no row of
\* the symbol
LatestIsGreatestIdOfSymbol ==
    [][LatestStep =>
        LET mine == {r \in rows : r.symbol = last_call'.symbol}
        IN  /\ last_call'.status = 404 <=> mine = {}
            /\ last_call'.status = 200 =>
                /\ last_call'.snapshot.symbol = last_call'.symbol
                /\ last_call'.snapshot.id = Max({r.id : r \in mine})
                /\ \E k \in DOMAIN appends :
                        /\ appends[k].id = last_call'.snapshot.id
                        /\ appends[k].clusters = last_call'.snapshot.clusters
      ]_vars

\* a step in which tick n finished the attempt of one more symbol
AttemptStep(n) ==
    /\ n \in DOMAIN tasks /\ n \in DOMAIN tasks'
    /\ tasks'[n].pc # "collected"
    /\ tasks'[n].fetched # tasks[n].fetched

\* C28: in every tick saved + errors is the number of symbols attempted so
\* far, the symbols are attempted one at a time in the order SOL, BTC, ETH,
\* each once, and a tick that has ended has saved + errors = 3
TickAccountsEverySymbol ==
    /\ [](/\ SYMBOLS = <<"SOL", "BTC", "ETH">>
          /\ \A n \in DOMAIN tasks :
                LET task == tasks[n]
                IN  /\ task.saved + task.errors = Len(task.fetched)
                    /\ InProgress(task) =>
                        /\ task.i = Len(task.fetched) + 1
                        /\ task.i <= Len(SYMBOLS)
                    /\ Finished(task) =>
                        /\ Len(task.fetched) = Len(SYMBOLS)
                        /\ task.saved + task.errors = 3)
    /\ [][\A n \in 1..MaxTicks :
            AttemptStep(n) =>
                /\ tasks'[n].fetched \in
                        {Append(tasks[n].fetched, outcome) :
                            outcome \in {"price raised", "signal raised", "signal absent",
                                         "storage fault", "fetched"}}
                /\ Len(tasks'[n].fetched) = tasks[n].i
                /\ appends' # appends =>
                        /\ appends' = Append(appends, Last(appends'))
                        /\ Last(appends').symbol = SYMBOLS[tasks[n].i]
                /\ InProgress(tasks'[n]) => tasks'[n].i = tasks[n].i + 1]_vars

\* a tick ended that stored SOL, found the signal fetch of BTC raising and met
\* a storage fault for ETH
OneSavedTwoErrors ==
    \E n \in DOMAIN tasks :
        /\ tasks[n].pc = "done"
        /\ tasks[n].fetched = <<"fetched", "signal raised", "storage fault">>
        /\ tasks[n].saved = 1
        /\ tasks[n].errors = 2

\* C29: the rows a tick has added are as many as its saved count, at most one
\* per tracked symbol, none for a symbol it counted as an error; a step that
\* counts a save adds exactly one row, of the symbol attempted, and a step that
\* counts an error adds none
TickWritesMatchSaved ==
    /\ [](\A n \in DOMAIN tasks :
            LET task == tasks[n]
            IN  task.pc # "collected" =>
                    /\ Len(appends) = task.saved
                    /\ \A j, k \in DOMAIN appends :
                            j # k => appends[j].symbol # appends[k].symbol
                    /\ \A k \in DOMAIN task.fetched :
                            task.fetched[k] # "fetched" =>
                                SYMBOLS[k] \notin {a.symbol : a \in Range(appends)})
    /\ [][\A n \in 1..MaxTicks :
            AttemptStep(n) =>
                /\ tasks'[n].saved = tasks[n].saved + 1 =>
                        /\ Cardinality(rows' \ rows) = 1
                        /\ \A r \in rows' \ rows :
                                /\ r.symbol = SYMBOLS[tasks[n].i]
                                /\ r.id = Last(appends').id
                /\ tasks'[n].errors = tasks[n].errors + 1 =>
                        /\ rows' \subseteq rows
                        /\ appends' = appends]_vars

\* a tick ended with two rows added and two saves counted, none for BTC whose
\* price fetch raised
TwoRowsForTwoSaved ==
    \E n \in DOMAIN tasks :
        /\ tasks[n].pc = "done"
        /\ tasks[n].saved = 2
        /\ tasks[n].fetched[2] = "price raised"
        /\ Len(appends) = 2
        /\ {r.symbol : r \in {q \in rows : q.id \in {a.id : a \in Range(appends)}}}
                = {"SOL", "ETH"}

\* a step of GET /snapshots
ListStep == last_call' # last_call /\ last_call'.op = "list_snapshots"

\* C30 as claimed: in every state of the tracker that /status requests lead
\* to, GET /snapshots answers with one summary (timestamp, price, cluster
\* count) per cached entry, oldest to newest, and does not raise
CacheListAlwaysSucceeds ==
    [][ListStep =>
        /\ last_call'.status = 200
        /\ last_call'.count = Len(snapshots)
        /\ Len(last_call'.snapshots) = Len(snapshots)
        /\ \A i \in DOMAIN snapshots :
            /\ last_call'.snapshots[i].timestamp = snapshots[i].timestamp
            /\ last_call'.snapshots[i].price = snapshots[i].price_at_snapshot
            /\ snapshots[i].data # None
            /\ last_call'.snapshots[i].clusters_count = Len(snapshots[i].data.data)
      ]_vars

\* C31: for a magnet score in [-1, 1] and signal scores in {-1, 0, 1}, a
\* HIGH_BULLISH_CONFLUENCE result has a bias among LEAN_BULLISH, BULLISH and
\* STRONG_BULLISH, and a HIGH_BEARISH_CONFLUENCE result a bias among
\* LEAN_BEARISH, BEARISH and STRONG_BEARISH
BiasAgreesWithHighConfluence ==
    (last_call.op = "calculate_confluence_score" /\ "engine" \in DOMAIN last_call) =>
        /\ last_call.result.confluence = "HIGH_BULLISH_CONFLUENCE" =>
                last_call.bias \in {"LEAN_BULLISH", "BULLISH", "STRONG_BULLISH"}
        /\ last_call.result.confluence = "HIGH_BEARISH_CONFLUENCE" =>
                last_call.bias \in {"LEAN_BEARISH", "BEARISH", "STRONG_BEARISH"}

\* magnet 0.375 with funding and ls bullish against a bearish whale: three
\* bullish signals, and a bias that is only LEAN_BULLISH
HighConfluenceLeanBias ==
    /\ last_call.op = "calculate_confluence_score"
    /\ "engine" \in DOMAIN last_call
    /\ last_call.input = <<3, -1, 1, 1>>
    /\ last_call.result.confluence = "HIGH_BULLISH_CONFLUENCE"
    /\ last_call.bias = "LEAN_BULLISH"

\* a step in which tick n starts to await get_hyblock_raw for its symbol
QueryStep(n) ==
    /\ n \in DOMAIN tasks'
    /\ tasks'[n].pc = "hyblock"
    /\ n \in DOMAIN tasks => tasks[n].pc # "hyblock"

\* a step in which the price fetch of tick n's symbol raised
PriceFailedStep(n) ==
    /\ n \in DOMAIN tasks /\ n \in DOMAIN tasks'
    /\ Len(tasks'[n].fetched) = Len(tasks[n].fetched) + 1
    /\ Last(tasks'[n].fetched) = "price raised"

\* a step in which get_hyblock_raw answered tick n
SignalStep(n) ==
    /\ n \in DOMAIN tasks /\ n \in DOMAIN tasks'
    /\ Len(tasks'[n].fetched) = Len(tasks[n].fetched) + 1
    /\ Last(tasks'[n].fetched) # "price raised"

\* C32: a tick asks the derivatives source for a symbol only after the price
\* fetch of that symbol has returned a price; when the price fetch raises, the
\* tick goes on to the next symbol (or ends) without asking the derivatives
\* source for that symbol, and nothing is appended for it
PriceBeforeSignal ==
    /\ [](\A n \in DOMAIN tasks :
            tasks[n].pc = "hyblock" =>
                /\ tasks[n].price \in {p.value : p \in {q \in TickPrices : q # Raise}}
                /\ tasks[n].i = Len(tasks[n].fetched) + 1)
    /\ [][\A n \in 1..MaxTicks :
            /\ QueryStep(n) =>
                /\ n \in DOMAIN tasks
                /\ tasks[n].pc = "price"
                /\ tasks'[n].i = tasks[n].i
                /\ tasks'[n].fetched = tasks[n].fetched
                /\ UNCHANGED <<rows, sqlite_sequence, appends>>
            /\ PriceFailedStep(n) =>
                /\ tasks[n].pc = "price"
                /\ Len(tasks'[n].fetched) = tasks[n].i
                /\ tasks'[n].pc # "hyblock"
                /\ tasks'[n].pc = "price" => tasks'[n].i = tasks[n].i + 1
                /\ tasks'[n].saved = tasks[n].saved
                /\ tasks'[n].errors = tasks[n].errors + 1
                /\ UNCHANGED <<sqlite_sequence, appends>>
                /\ rows' \subseteq rows
            /\ SignalStep(n) =>
                /\ tasks[n].pc = "hyblock"
                /\ Len(tasks'[n].fetched) = tasks[n].i]_vars

\* a tick whose price fetch raised for SOL and which then stored BTC: the only
\* append is the one of BTC
PriceFailedThenNextStored ==
    \E n \in DOMAIN tasks :
        /\ tasks[n].fetched = <<"price raised", "fetched">>
        /\ tasks[n].errors = 1
        /\ Len(appends) = 1
        /\ appends[1].symbol = "BTC"

\* a step in which a caller changed an object it had pushed
ChangeStep == objects' # objects /\ Len(objects') = Len(objects)

\* a step in which a caller pushed an object
PushStep == Len(objects') = Len(objects) + 1

\* C33: the cache holds copies: every entry still cached has the data its
\* caller pushed, whatever the caller did to its object since; a change the
\* caller makes to its object leaves the deque, and what get_latest,
\* get_snapshot and list_snapshots return, as they were; and a push leaves the
\* object pushed, and every object pushed before, as the callers hold them
EntriesIsolatedFromCaller ==
    /\ [](\A k \in DOMAIN objects :
            entry_of(k) > 0 =>
                snapshots[entry_of(k)] =
                    [timestamp |-> isoformat(pushed[k].at),
                     price_at_snapshot |-> pushed[k].price,
                     data |-> pushed[k].data])
    /\ []((last_call.op = "get_latest_snapshot" /\ last_call.status = 200) =>
            last_call.snapshot.data = Last(pushed).data)
    /\ [][ChangeStep =>
            /\ snapshots' = snapshots
            /\ get_latest(snapshots') = get_latest(snapshots)
            /\ list_snapshots(snapshots') = list_snapshots(snapshots)
            /\ \A t \in CacheInstants :
                    get_snapshot(snapshots', isoformat(t)) =
                        get_snapshot(snapshots, isoformat(t))]_vars
    /\ [][PushStep =>
            /\ Last(objects').value = Last(pushed').data
            /\ \A k \in DOMAIN objects : objects'[k] = objects[k]]_vars

\* a caller emptied the cluster list it had pushed last, and get_latest still
\* answers with the cluster pushed
ClearedAfterPushStillCached ==
    /\ objects # <<>>
    /\ Last(pushed).data = [data |-> <<ShortAbove>>]
    /\ Last(objects).value = [data |-> <<>>]
    /\ last_call.op = "get_latest_snapshot"
    /\ last_call.status = 200
    /\ last_call.snapshot.data = [data |-> <<ShortAbove>>]

\* a step that answered GET /history/snapshot/{snapshot_id} with a snapshot
DetailStep ==
    /\ last_call' # last_call
    /\ last_call'.op = "get_snapshot_detail"
    /\ last_call'.status = 200

\* a step that answered GET /history/{symbol} with a list of snapshots
HistoryStep ==
    /\ last_call' # last_call
    /\ last_call'.op = "get_symbol_history"
    /\ last_call'.status = 200

\* C34: every row's clusters_count is the length of the cluster list stored
\* in its clusters_json, and get_snapshot_by_id and get_snapshots_for_symbol
\* report that count for the row
ClustersCountDerived ==
    /\ [](\A r \in rows : r.clusters_count = Len(json_loads(r.clusters_json)))
    /\ [][DetailStep =>
            \E r \in rows :
                /\ r.id = last_call'.snapshot.id
                /\ last_call'.snapshot.clusters_count = Len(json_loads(r.clusters_json))
                /\ last_call'.snapshot.clusters_count = Len(last_call'.snapshot.clusters)]_vars
    /\ [][HistoryStep =>
            \A i \in DOMAIN last_call'.snapshots :
                \E r \in rows :
                    /\ r.id = last_call'.snapshots[i].id
                    /\ last_call'.snapshots[i].clusters_count =
                            Len(json_loads(r.clusters_json))]_vars

\* a row of two clusters and a row of none are stored, and the history of the
\* symbol lists them with the counts 2 and 0
HistoryListsBothCounts ==
    /\ last_call.op = "get_symbol_history"
    /\ last_call.status = 200
    /\ last_call.count = 2
    /\ {last_call.snapshots[i].clusters_count : i \in DOMAIN last_call.snapshots} = {0, 2}
    /\ \E r \in rows : r.clusters_count = 2 /\ Len(json_loads(r.clusters_json)) = 2
====
